---------------------------- MODULE Spec2Model ----------------------------
(***************************************************************************)
(* A model of the AI Tutor application (kabweh/pvtadm8):                   *)
(*   - the invite / registration / login flow of auth_manager.py over the  *)
(*     users and invite_links tables of database.py, both as whole calls   *)
(*     (Spec, SpecInvites) and as per-statement steps of concurrent        *)
(*     sessions (SpecRace);                                                *)
(*   - the quiz generator of quiz_generator.py (SpecQuiz).                 *)
(***************************************************************************)
EXTENDS Integers, Sequences, FiniteSets, TLC

(***************************************************************************)
(* Bounds of the model.                                                    *)
(***************************************************************************)
MaxTime == 2
MaxDays == 1
\* sentences of a source text, and the largest count a quiz is asked for
MaxSentences == 2
MaxQuestions == 3
\* sentences of a source text for which the options of a question are made
MaxOptionSentences == 1
\* SpecFacts: the longest run of equal sentences in a text
MaxRun == 4
\* SpecConvert: words of a statement
MaxStatementLen == 4
\* SpecReport: attempts in a user's history
MaxAttempts == 3
\* SpecSession: files a user uploads
MaxUploads == 3
\* audio files the text-to-speech handler can have on disk at once
MaxAudioFiles == 3
\* blocks, separated by blank lines, of a text given to generate_explanation
MaxParagraphs == 3

(***************************************************************************)
(* Program constants.                                                      *)
(***************************************************************************)
MinUsernameLen == 3
MinPasswordLen == 8
\* add_user's return value on sqlite3.IntegrityError
IntegrityErrorId == -1
\* the NULL of invite_links.used_by (row ids start at 1)
NoUser == 0
\* a sentence counts when it is longer than this many characters
MinSentenceLen == 20
\* a word is a key term when it is longer than this many characters
MinTermLen == 4
\* the number of key facts below which regular sentences fill up
MaxFacts == 10
\* distractors of a multiple-choice question
NumDistractors == 3
\* a similar word differs in length from the answer by at most this much
MaxLenDiff == 2
\* and is longer than this many characters
MinSimilarLen == 3
\* the score percentages from which the feedback changes
ExcellentPercent == 80
GoodPercent == 60

\* Python's None / SQL NULL for text values
Null == "<NULL>"
\* Python's None where a row (a dict) is expected
NoRow == [id |-> NoUser]
\* st.session_state.quiz_attempt_id = None (attempt ids start at 1)
NoAttempt == 0
\* st.session_state.current_quiz = None
NoQuiz == << >>
\* st.session_state.quiz_results = None
NoResults == [none |-> TRUE]
\* quiz_attempts.completed_at IS NULL (the clock starts at 0)
NotCompleted == -1
\* _convert_to_question has returned nothing yet
NoQuestion == [template |-> "none"]
\* prepare_report_data has returned nothing yet
NotPrepared == [raised |-> "not called"]
\* generate_explanation has returned nothing yet
NoExplanation == [raised |-> "not called"]

(***************************************************************************)
(* Inputs the operations are called with.                                  *)
(***************************************************************************)
Usernames == {"ab", "bob", "Bob"}
Passwords == {"short", "password1"}
\* what login_user is called with: also a well-formed password nobody has
LoginPasswords == Passwords \cup {"password2"}
Emails == {Null, "a@x.org"}
\* values secrets.token_urlsafe can return
TokenPool == {"tokA"}
\* the sessions of SpecRace
Sessions == {"s1", "s2"}
\* what a caller can present as invite_token
PresentedTokens == TokenPool \cup {Null, "", "bogus"}
\* values bcrypt.gensalt can return
Salts == {"s1"}
\* clock ticks that can pass between two statements of one call
Elapse == {0, 1}

VARIABLES
  users,        \* table users: row i has id i (AUTOINCREMENT, no DELETE)
  invites,      \* table invite_links: row i has id i
  now,          \* datetime.datetime.now()
  result,       \* the last call of the sequential interface and what it returned
  created_via,  \* history: created_via[id] = the token presented by the
                \* register_user call that inserted user id (Null: none)
  sess,         \* SpecRace: each session's position in register_user and its locals
  content,      \* generate_quiz: processed_content, as its sentence fragments
  num_questions,\* generate_quiz: the requested count
  key_facts,    \* generate_quiz: the facts not used yet
  questions,    \* generate_quiz: the questions built so far
  qpc,          \* generate_quiz: the loop it is in ("idle": not called)
  qi,           \* generate_quiz: iterations of the current for loop done
  quiz,         \* generate_quiz: quiz["questions"] once it has returned
  target_term,  \* a multiple-choice question's correct_answer
  distractors,  \* what _generate_distractors returned for it
  options,      \* the question's options, shuffled
  opc,          \* where the making of the options is ("idle": not started)
  session_user, \* st.session_state.user of the quiz-taking session
  current_quiz, \* st.session_state.current_quiz: its questions
  quiz_attempt_id,    \* st.session_state.quiz_attempt_id
  quiz_responses,     \* st.session_state.quiz_responses: question -> response
  quiz_results,       \* st.session_state.quiz_results
  quizzes,            \* table quizzes, with the questions rows of each quiz
  quiz_attempts,      \* table quiz_attempts: row i has id i
  question_responses, \* table question_responses
  upload,             \* an uploaded file: its kind and what the extractors
                      \* do with it ("idle": none)
  extracted_text,     \* the text extracted so far, as its words
  xpc,                \* where the extraction is
  statement,          \* _convert_to_question: its argument, as its words
  question,           \* _convert_to_question: what it returned
  quiz_history,       \* what get_user_quiz_history returned
  report_data,        \* what prepare_report_data returned or raised
  session_state,      \* the application's st.session_state: key -> value
  script_run,         \* how the last run of the script ended
  generate_audio_for_segment, \* st.session_state.generate_audio_for_segment
  current_audio_segment_id,   \* st.session_state.current_audio_segment_id
  current_audio_path,         \* st.session_state.current_audio_path
  audio_generation_error,     \* st.session_state.audio_generation_error
  audio_files,                \* the audio files on disk
  lesson_text,        \* generate_explanation: text, as its paragraphs
  complexity_level,   \* generate_explanation: complexity_level
  explanation         \* generate_explanation: what it returned or raised

dbVars == <<users, invites, now, created_via>>
authVars == <<users, invites, now, result, created_via, sess>>
quizVars == <<content, num_questions, key_facts, questions, qpc, qi, quiz>>
optionVars == <<target_term, distractors, options, opc>>
attemptVars == <<session_user, current_quiz, quiz_attempt_id, quiz_responses,
                 quiz_results, quizzes, quiz_attempts, question_responses>>
extractVars == <<upload, extracted_text, xpc>>
convertVars == <<statement, question>>
reportVars == <<quiz_history, report_data>>
sessionVars == <<session_state, script_run>>
audioVars == <<generate_audio_for_segment, current_audio_segment_id,
               current_audio_path, audio_generation_error, audio_files>>
explainVars == <<lesson_text, complexity_level, explanation>>
pageVars == <<convertVars, reportVars, sessionVars, audioVars, explainVars>>
vars == <<authVars, quizVars, optionVars, attemptVars, extractVars, pageVars>>
\* what the steps of one component leave alone
notAuth == <<quizVars, optionVars, attemptVars, extractVars, pageVars>>
notQuiz == <<authVars, optionVars, attemptVars, extractVars, pageVars>>
notOptions == <<authVars, num_questions, key_facts, questions, qpc, qi, quiz,
                attemptVars, extractVars, pageVars>>
notAttempt == <<users, invites, result, created_via, sess, quizVars, optionVars,
                extractVars, pageVars>>
notExtract == <<authVars, quizVars, optionVars, attemptVars, pageVars>>
notConvert == <<authVars, quizVars, optionVars, attemptVars, extractVars,
                reportVars, sessionVars, audioVars, explainVars>>
notReport == <<authVars, quizVars, optionVars, attemptVars, extractVars,
               convertVars, sessionVars, audioVars, explainVars>>
notSession == <<authVars, quizVars, optionVars, attemptVars, extractVars,
                convertVars, reportVars, audioVars, explainVars>>
notAudio == <<authVars, quizVars, optionVars, attemptVars, extractVars,
              convertVars, reportVars, sessionVars, explainVars>>
notExplain == <<authVars, quizVars, optionVars, attemptVars, extractVars,
                convertVars, reportVars, sessionVars, audioVars>>

(***************************************************************************)
(* database.py                                                             *)
(***************************************************************************)

\* SELECT COUNT(*) FROM users
count_users(us) == Len(us)

\* Mutant of UsersNamed: the comparison folds case (COLLATE NOCASE).
FoldCase(username) == IF username = "Bob" THEN "bob" ELSE username

UsersNamed_NoCase(us, username) ==
  {i \in 1..Len(us) : FoldCase(us[i].username) = FoldCase(username)}

\* SELECT * FROM users WHERE username = ?  (BINARY collation: case-sensitive)
UsersNamed(us, username) == {i \in 1..Len(us) : us[i].username = username}

get_user_by_username(us, username) ==
  IF UsersNamed(us, username) = {} THEN NoRow
  ELSE us[CHOOSE i \in UsersNamed(us, username) : TRUE]

get_user_by_id(us, user_id) ==
  IF user_id \in 1..Len(us) THEN us[user_id] ELSE NoRow

\* Mutant of is_user_admin: any existing user passes.
is_user_admin_AnyUser(us, user_id) == get_user_by_id(us, user_id) # NoRow

is_user_admin(us, user_id) ==
  /\ get_user_by_id(us, user_id) # NoRow
  /\ get_user_by_id(us, user_id).is_admin

\* The UNIQUE constraints of users: username, and email where not NULL.
UsersIntegrityError(us, username, email) ==
  \/ \E i \in 1..Len(us) : us[i].username = username
  \/ email # Null /\ \E i \in 1..Len(us) : us[i].email = email

\* Mutant of add_user: the is_admin argument is not stored; every row is
\* inserted as an administrator.
add_user_AlwaysAdmin(us, username, password_hash, email, is_admin) ==
  IF UsersIntegrityError(us, username, email)
  THEN [users |-> us, id |-> IntegrityErrorId]
  ELSE [users |-> Append(us, [id |-> Len(us) + 1, username |-> username,
                              password_hash |-> password_hash, email |-> email,
                              is_admin |-> TRUE]),
        id |-> Len(us) + 1]

\* add_user: the table after the call and the returned id.
add_user(us, username, password_hash, email, is_admin) ==
  IF UsersIntegrityError(us, username, email)
  THEN [users |-> us, id |-> IntegrityErrorId]
  ELSE [users |-> Append(us, [id |-> Len(us) + 1, username |-> username,
                              password_hash |-> password_hash, email |-> email,
                              is_admin |-> is_admin]),
        id |-> Len(us) + 1]

\* Mutant of UnusedInvite: the SELECT lacks "AND used = 0".
UnusedInvite_AnyRow(inv, token) == {i \in 1..Len(inv) : inv[i].token = token}

\* SELECT ... FROM invite_links WHERE token = ? AND used = 0  (token is UNIQUE)
UnusedInvite(inv, token) ==
  {i \in 1..Len(inv) : inv[i].token = token /\ ~inv[i].used}

\* create_invite_link: INSERT INTO invite_links; a token already present
\* violates UNIQUE and raises.
TokenExists(inv, token) == \E i \in 1..Len(inv) : inv[i].token = token

\* (the columns email, created_at and used_at carry data no operation reads
\* back into a decision; they are left out of the rows)
create_invite_link(inv, token, created_by, expires_in_days, clock) ==
  Append(inv, [id |-> Len(inv) + 1, token |-> token,
               created_by |-> created_by, expires_at |-> clock + expires_in_days,
               used |-> FALSE, used_by |-> NoUser])

\* use_invite_link, the SELECT and the expiry check: the id of the row to
\* update, or NoUser (0) when the call returns False.
use_invite_select(inv, token, clock) ==
  IF UnusedInvite(inv, token) = {} THEN NoUser
  ELSE LET i == CHOOSE j \in UnusedInvite(inv, token) : TRUE
       IN IF inv[i].expires_at < clock THEN NoUser ELSE i

\* use_invite_link, the UPDATE ... WHERE id = ?
use_invite_update(inv, invite_id, user_id) ==
  [inv EXCEPT ![invite_id].used = TRUE, ![invite_id].used_by = user_id]

\* use_invite_link as one call: the table after it and the returned bool.
use_invite_link(inv, token, user_id, clock) ==
  LET i == use_invite_select(inv, token, clock)
  IN IF i = NoUser THEN [invites |-> inv, ok |-> FALSE]
     ELSE [invites |-> use_invite_update(inv, i, user_id), ok |-> TRUE]

(***************************************************************************)
(* auth_manager.py                                                         *)
(***************************************************************************)

\* _hash_password: bcrypt of the password under a fresh salt; the hash holds
\* the salt and a digest of (salt, password), collision-free.
hash_password(password, salt) == [salt |-> salt, digest |-> <<salt, password>>]

\* _check_password: bcrypt.checkpw hashes the password under the stored salt.
check_password(password, hashed) == <<hashed.salt, password>> = hashed.digest

\* What every operation of AuthManager returns: {success, message, ...}.
Ret(success, message, user) ==
  [success |-> success, message |-> message, user |-> user]

\* Mutant of validate_invite_token: expires_at is not compared to the clock.
validate_invite_token_NoExpiry(inv, token, clock) ==
  IF UnusedInvite(inv, token) = {}
  THEN Ret(FALSE, "Invalid or already used invite token.", NoRow)
  ELSE Ret(TRUE, "Invite token is valid.", NoRow)

validate_invite_token(inv, token, clock) ==
  IF UnusedInvite(inv, token) = {}
  THEN Ret(FALSE, "Invalid or already used invite token.", NoRow)
  ELSE LET i == CHOOSE j \in UnusedInvite(inv, token) : TRUE
       IN IF inv[i].expires_at < clock
          THEN Ret(FALSE, "Invite token has expired.", NoRow)
          ELSE Ret(TRUE, "Invite token is valid.", NoRow)

\* Python's "not invite_token": None or the empty string.
NotToken(token) == token = Null \/ token = ""

\* Mutant of CredentialError: the password is not checked.
CredentialError_NoPassword(username, password) ==
  IF username = Null \/ Len(username) < MinUsernameLen
  THEN "Username must be at least 3 characters long."
  ELSE ""

\* register_user, lines 61-71: the checks of username and password.
CredentialError(username, password) ==
  IF username = Null \/ Len(username) < MinUsernameLen
  THEN "Username must be at least 3 characters long."
  ELSE IF password = Null \/ Len(password) < MinPasswordLen
  THEN "Password must be at least 8 characters long."
  ELSE ""

\* register_user, lines 85-108, once add_user has returned user_id: marking
\* the token and building the result. The tables after it and the result.
register_finish(us, inv, is_first_user, token, user_id, clock) ==
  LET used == IF is_first_user THEN [invites |-> inv, ok |-> TRUE]
              ELSE use_invite_link(inv, token, user_id, clock)
      message == IF ~is_first_user /\ ~used.ok
                 THEN "User registered successfully, but there was an issue marking the invite token as used."
                 ELSE IF is_first_user
                 THEN "Administrator account registered successfully."
                 ELSE "User registered successfully."
  IN [users |-> us, invites |-> used.invites,
      ret |-> Ret(TRUE, message, get_user_by_id(us, user_id))]

\* Mutant of register_user: the token is marked used before add_user is
\* called, so a duplicate username fails with the token consumed.
register_user_MarkFirst(us, inv, username, password, email, token, salt, clock1, clock2) ==
  LET is_first_user == count_users(us) = 0
      used == IF is_first_user THEN [invites |-> inv, ok |-> TRUE]
              ELSE use_invite_link(inv, token, Len(us) + 1, clock1)
      added == add_user(us, username, hash_password(password, salt), email,
                        is_first_user)
  IN IF (~is_first_user /\ ~used.ok) \/ CredentialError(username, password) # ""
     THEN [users |-> us, invites |-> inv,
           ret |-> Ret(FALSE, "Invalid or already used invite token.", NoRow)]
     ELSE IF added.id = IntegrityErrorId
     THEN [users |-> us, invites |-> used.invites,
           ret |-> Ret(FALSE, "Username or email already exists.", NoRow)]
     ELSE [users |-> added.users, invites |-> used.invites,
           ret |-> Ret(TRUE, "User registered successfully.",
                       get_user_by_id(added.users, added.id))]

\* register_user as one call. clock1 is datetime.now() in validate_invite_token,
\* clock2 >= clock1 the one in use_invite_link.
register_user(us, inv, username, password, email, token, salt, clock1, clock2) ==
  LET is_first_user == count_users(us) = 0
      failed(message) == [users |-> us, invites |-> inv,
                          ret |-> Ret(FALSE, message, NoRow)]
      validation == validate_invite_token(inv, token, clock1)
      added == add_user(us, username, hash_password(password, salt), email,
                        is_first_user)
  IN IF ~is_first_user /\ NotToken(token)
     THEN failed("Invite token is required for registration.")
     ELSE IF ~is_first_user /\ ~validation.success
     THEN failed(validation.message)
     ELSE IF CredentialError(username, password) # ""
     THEN failed(CredentialError(username, password))
     ELSE IF added.id = IntegrityErrorId
     THEN failed("Username or email already exists.")
     ELSE register_finish(added.users, inv, is_first_user, token, added.id, clock2)

login_user(us, username, password) ==
  LET user == get_user_by_username(us, username)
  IN IF user = NoRow
     THEN Ret(FALSE, "Invalid username or password.", NoRow)
     ELSE IF ~check_password(password, user.password_hash)
     THEN Ret(FALSE, "Invalid username or password.", NoRow)
     ELSE Ret(TRUE, "Login successful.", user)

\* generate_invite_link: the table after the call and the result. token is
\* what secrets.token_urlsafe returned; an INSERT that raises (token not
\* UNIQUE) is caught and reported.
generate_invite_link(us, inv, created_by_user_id, expires_in_days, token, clock) ==
  IF ~is_user_admin(us, created_by_user_id)
  THEN [invites |-> inv,
        ret |-> Ret(FALSE, "Only administrators can generate invite links.", NoRow)]
  ELSE IF TokenExists(inv, token)
  THEN [invites |-> inv, ret |-> Ret(FALSE, "Failed to generate invite link", NoRow)]
  ELSE [invites |-> create_invite_link(inv, token, created_by_user_id,
                                       expires_in_days, clock),
        ret |-> Ret(TRUE, "Invite link generated successfully.", NoRow)]

(***************************************************************************)
(* Spec: the operations called one after the other, each running to its    *)
(* end before the next starts.                                             *)
(***************************************************************************)

\* The record kept of the last call: the operation, the username (login_user)
\* or the token (validate_invite_token, use_invite_link) it was called with,
\* and what it returned.
Call(op, username, token, ret) ==
  [op |-> op, username |-> username, token |-> token, ret |-> ret]

NoCall == Call("none", Null, Null, Ret(TRUE, "", NoRow))

\* A session of SpecRace that has not called register_user yet. (A session
\* whose call has returned stays at "done", holding the result, until its
\* next call.)
Idle == [pc |-> "idle"]

InitDb ==
  /\ users = << >>
  /\ invites = << >>
  /\ now = 0
  /\ created_via = << >>

InitAuth ==
  /\ InitDb
  /\ result = NoCall
  /\ sess = [s \in Sessions |-> Idle]

\* generate_quiz has not been called.
QuizIdle ==
  /\ content = << >>
  /\ num_questions = 0
  /\ key_facts = << >>
  /\ questions = << >>
  /\ qpc = "idle"
  /\ qi = 0
  /\ quiz = << >>

\* No multiple-choice question is being made.
OptionsIdle ==
  /\ target_term = Null
  /\ distractors = << >>
  /\ options = << >>
  /\ opc = "idle"

\* QuizComponent.__init__ on a fresh session and database: nobody is logged
\* in, no quiz is current.
AttemptIdle ==
  /\ session_user = NoRow
  /\ current_quiz = NoQuiz
  /\ quiz_attempt_id = NoAttempt
  /\ quiz_responses = << >>
  /\ quiz_results = NoResults
  /\ quizzes = << >>
  /\ quiz_attempts = << >>
  /\ question_responses = << >>

\* No file is being processed.
ExtractIdle ==
  /\ upload = [kind |-> "none"]
  /\ extracted_text = << >>
  /\ xpc = "idle"

\* _convert_to_question has not been called.
ConvertIdle ==
  /\ statement = << >>
  /\ question = NoQuestion

\* No report has been asked for.
ReportIdle ==
  /\ quiz_history = << >>
  /\ report_data = NotPrepared

\* The script has not run in this browser session.
SessionIdle ==
  /\ session_state = << >>
  /\ script_run = "none"

\* TTSComponent.__init__ on a fresh session (lines 29-34), no audio file.
AudioIdle ==
  /\ generate_audio_for_segment = Null
  /\ current_audio_segment_id = Null
  /\ current_audio_path = Null
  /\ audio_generation_error = Null
  /\ audio_files = {}

\* generate_explanation has not been called.
ExplainIdle ==
  /\ lesson_text = << >>
  /\ complexity_level = "medium"
  /\ explanation = NoExplanation

PagesIdle == ConvertIdle /\ ReportIdle /\ SessionIdle /\ AudioIdle /\ ExplainIdle

Init ==
  InitAuth /\ QuizIdle /\ OptionsIdle /\ AttemptIdle /\ ExtractIdle /\ PagesIdle

\* The history of who was created through which token, after a register_user
\* call changed the users table from us to us2.
Recorded(us, us2, token) ==
  IF Len(us2) > Len(us)
  THEN Append(created_via, IF count_users(us) = 0 THEN Null ELSE token)
  ELSE created_via

RegisterUser(username, password, email, token) ==
  \E salt \in Salts, d \in Elapse :
    LET r == register_user(users, invites, username, password, email, token,
                           salt, now, now + d)
    IN /\ now + d <= MaxTime
       /\ users' = r.users
       /\ invites' = r.invites
       /\ now' = now + d
       /\ created_via' = Recorded(users, r.users, token)
       /\ result' = Call("register_user", Null, Null, r.ret)
       /\ UNCHANGED <<sess, notAuth>>

LoginUser(username, password) ==
  /\ result' = Call("login_user", username, Null,
                    login_user(users, username, password))
  /\ UNCHANGED <<dbVars, sess, notAuth>>

GenerateInviteLink(user_id, expires_in_days, token) ==
  LET r == generate_invite_link(users, invites, user_id, expires_in_days,
                                token, now)
  IN /\ invites' = r.invites
     /\ result' = Call("generate_invite_link", Null, Null, r.ret)
     /\ UNCHANGED <<users, now, created_via, sess, notAuth>>

ValidateInviteToken(token) ==
  /\ result' = Call("validate_invite_token", Null, token,
                    validate_invite_token(invites, token, now))
  /\ UNCHANGED <<dbVars, sess, notAuth>>

UseInviteLink(token, user_id) ==
  LET r == use_invite_link(invites, token, user_id, now)
  IN /\ invites' = r.invites
     /\ result' = Call("use_invite_link", Null, token,
                       Ret(r.ok, "", NoRow))
     /\ UNCHANGED <<users, now, created_via, sess, notAuth>>

\* Time passes between two calls.
Tick ==
  /\ now < MaxTime
  /\ now' = now + 1
  /\ UNCHANGED <<users, invites, created_via, result, sess, notAuth>>

\* The calls with arguments from the given sets: U usernames, E emails,
\* T presented tokens, G tokens secrets.token_urlsafe can return.
NextOf(U, E, T, G) ==
  \/ \E u \in U, p \in Passwords, e \in E, t \in T : RegisterUser(u, p, e, t)
  \/ \E u \in U, p \in LoginPasswords : LoginUser(u, p)
  \/ \E id \in 1..(Len(users) + 1), d \in 0..MaxDays, t \in G :
       GenerateInviteLink(id, d, t)
  \/ \E t \in T : ValidateInviteToken(t)
  \/ \E t \in T, id \in 1..Len(users) : UseInviteLink(t, id)
  \/ Tick

Next == NextOf(Usernames, Emails, PresentedTokens, TokenPool)

Spec == Init /\ [][Next]_vars

(***************************************************************************)
(* SpecInvites: the same calls with two tokens in play (and no emails).    *)
(***************************************************************************)
\* values secrets.token_urlsafe can return
TokenPool2 == {"tokA", "tokB"}
\* what a caller can present as invite_token
PresentedTokens2 == TokenPool2 \cup {Null}

NextInvites == NextOf(Usernames, {Null}, PresentedTokens2, TokenPool2)

SpecInvites == Init /\ [][NextInvites]_vars

(***************************************************************************)
(* SpecRace: register_user run by concurrent sessions. Every session has   *)
(* its own connection to the one database file and every statement is      *)
(* committed on its own, so the calls interleave statement by statement:   *)
(* count_users, the SELECT of validate_invite_token, the INSERT of         *)
(* add_user, the SELECT and the UPDATE of use_invite_link.                 *)
(***************************************************************************)

\* What the sessions call register_user with.
RaceUsernames == {"bob", "Bob", "eve"}
RacePasswords == {"password1"}
RaceEmails == {Null}
\* no token, or a token that was issued
RaceTokens == {Null} \cup {invites[i].token : i \in 1..Len(invites)}

\* A session inside register_user: where it is, its arguments and locals.
Frame(pc, username, password, email, token, is_first_user, user_id, invite_id, ret) ==
  [pc |-> pc, username |-> username, password |-> password, email |-> email,
   token |-> token, is_first_user |-> is_first_user, user_id |-> user_id,
   invite_id |-> invite_id, ret |-> ret]

\* The frame f at its next statement pc.
At(f, pc) == [f EXCEPT !.pc = pc]

\* The frame f once register_user has returned ret.
Returned(f, ret) == [f EXCEPT !.pc = "done", !.ret = ret]

\* Lines 60-71 (no statement): the frame after the credential checks.
AfterCredentials(f) ==
  IF CredentialError(f.username, f.password) # ""
  THEN Returned(f, Ret(FALSE, CredentialError(f.username, f.password), NoRow))
  ELSE At(f, "add_user")

\* Lines 43-51: count_users and the check that a token was presented.
RaceStart(s, username, password, email, token) ==
  /\ sess[s].pc \in {"idle", "done"}
  /\ LET f == Frame("start", username, password, email, token,
                    count_users(users) = 0, NoUser, NoUser, Ret(TRUE, "", NoRow))
     IN sess' = [sess EXCEPT ![s] =
          IF ~f.is_first_user /\ NotToken(token)
          THEN Returned(f, Ret(FALSE, "Invite token is required for registration.", NoRow))
          ELSE IF ~f.is_first_user THEN At(f, "validate")
          ELSE AfterCredentials(f)]
  /\ UNCHANGED <<dbVars, result, notAuth>>

\* Lines 53-58: validate_invite_token.
RaceValidate(s) ==
  /\ sess[s].pc = "validate"
  /\ LET v == validate_invite_token(invites, sess[s].token, now)
     IN sess' = [sess EXCEPT ![s] =
          IF ~v.success THEN Returned(@, Ret(FALSE, v.message, NoRow))
          ELSE AfterCredentials(@)]
  /\ UNCHANGED <<dbVars, result, notAuth>>

\* Lines 73-83, and 95-108 for the first user: add_user.
RaceAddUser(s) ==
  /\ sess[s].pc = "add_user"
  /\ \E salt \in Salts :
       LET f == sess[s]
           added == add_user(users, f.username, hash_password(f.password, salt),
                             f.email, f.is_first_user)
       IN /\ users' = added.users
          /\ created_via' = IF added.id = IntegrityErrorId THEN created_via
                            ELSE Append(created_via,
                                        IF f.is_first_user THEN Null ELSE f.token)
          /\ sess' = [sess EXCEPT ![s] =
               IF added.id = IntegrityErrorId
               THEN Returned(f, Ret(FALSE, "Username or email already exists.", NoRow))
               ELSE IF f.is_first_user
               THEN Returned([f EXCEPT !.user_id = added.id],
                             register_finish(added.users, invites, TRUE, f.token,
                                             added.id, now).ret)
               ELSE At([f EXCEPT !.user_id = added.id], "use_select")]
  /\ UNCHANGED <<invites, now, result, notAuth>>

\* Lines 87-91: use_invite_link up to its UPDATE.
RaceUseSelect(s) ==
  /\ sess[s].pc = "use_select"
  /\ LET f == sess[s]
         i == use_invite_select(invites, f.token, now)
     IN sess' = [sess EXCEPT ![s] =
          IF i = NoUser
          THEN Returned(f, register_finish(users, invites, FALSE, f.token,
                                           f.user_id, now).ret)
          ELSE At([f EXCEPT !.invite_id = i], "use_update")]
  /\ UNCHANGED <<dbVars, result, notAuth>>

\* The UPDATE of use_invite_link, then lines 95-108.
RaceUseUpdate(s) ==
  /\ sess[s].pc = "use_update"
  /\ invites' = use_invite_update(invites, sess[s].invite_id, sess[s].user_id)
  /\ sess' = [sess EXCEPT ![s] =
       Returned(@, Ret(TRUE, "User registered successfully.",
                       get_user_by_id(users, @.user_id)))]
  /\ UNCHANGED <<users, now, created_via, result, notAuth>>

\* An administrator generates an invite in a session of its own (the check
\* of is_admin reads a row that never changes, the INSERT is one statement).
RaceGenerateInvite(user_id, expires_in_days, token) ==
  /\ invites' = generate_invite_link(users, invites, user_id, expires_in_days,
                                     token, now).invites
  /\ invites' # invites
  /\ UNCHANGED <<users, now, created_via, result, sess, notAuth>>

NextRace ==
  \/ \E s \in Sessions, u \in RaceUsernames, p \in RacePasswords,
        e \in RaceEmails, t \in RaceTokens : RaceStart(s, u, p, e, t)
  \/ \E s \in Sessions : RaceValidate(s)
  \/ \E s \in Sessions : RaceAddUser(s)
  \/ \E s \in Sessions : RaceUseSelect(s)
  \/ \E s \in Sessions : RaceUseUpdate(s)
  \/ \E id \in 1..Len(users), d \in 0..MaxDays, t \in TokenPool :
       RaceGenerateInvite(id, d, t)
  \/ Tick

SpecRace == Init /\ [][NextRace]_vars

(***************************************************************************)
(* quiz_generator.py                                                       *)
(*                                                                         *)
(* A text is modelled by the fragments re.split(r'[.!?]', content) cuts it *)
(* into, each stripped and given as its whitespace-separated words (the    *)
(* text that _preprocess_content returns has single spaces only).          *)
(***************************************************************************)

\* Sentences a text is made of.
SentencePool ==
  { <<"The", "mitochondria", "is", "the", "powerhouse">>,
    <<"Cells", "are", "small">>,
    <<"that", "is", "what", "it", "is", "to", "be">>,
    <<"Plants", "make", "sugar", "from", "light">>,
    <<"We", "think", "water", "is", "there">>,
    <<"Plants", "can", "be", "the", "option", "of", "it">> }

\* str.lower (and re.IGNORECASE) on the words of SentencePool, of
\* ShortAnswerInputs and of StatementWords.
Lower(w) ==
  CASE w = "The" -> "the"
    [] w = "Cells" -> "cells"
    [] w = "Plants" -> "plants"
    [] w = "We" -> "we"
    [] w = "THE" -> "the"
    [] w = "Are" -> "are"
    [] OTHER -> w

\* str.isalpha on the words of SentencePool: all are letters only.
IsAlpha(w) == TRUE

\* len() of a fragment: its words and the single spaces between them.
RECURSIVE CharLen(_)
CharLen(sentence) ==
  IF sentence = << >> THEN 0
  ELSE IF Len(sentence) = 1 THEN Len(sentence[1])
  ELSE Len(sentence[1]) + 1 + CharLen(Tail(sentence))

\* x in seq
In(x, seq) == \E i \in 1..Len(seq) : seq[i] = x

\* Lines 113-114, 278-279, 328-329: the fragments longer than 20 characters.
LongSentences(text) == SelectSeq(text, LAMBDA x : CharLen(x) > MinSentenceLen)

\* Line 120: re.search(r'\b(is|are|...)\b', sentence), case-sensitive.
FactVerbs == {"is", "are", "was", "were", "has", "have", "had", "can", "could",
              "will", "would", "should", "may", "might"}

HasFactVerb(sentence) == \E i \in 1..Len(sentence) : sentence[i] \in FactVerbs

\* Line 121: re.search(r'\b(I|we|you)\b', sentence.lower()): the sentence is
\* lower-cased and the pattern is not, so "I" matches nothing.
HasPronoun(sentence) ==
  \E i \in 1..Len(sentence) : Lower(sentence[i]) \in {"I", "we", "you"}

IsFactSentence(sentence) == HasFactVerb(sentence) /\ ~HasPronoun(sentence)

\* sorted(seq, key=len, reverse=True): by length, longest first, equal
\* lengths in their original order.
RECURSIVE SortedByLenDesc(_)
SortedByLenDesc(seq) ==
  IF seq = << >> THEN << >>
  ELSE LET k == CHOOSE i \in 1..Len(seq) :
                  /\ \A j \in 1..Len(seq) : CharLen(seq[j]) <= CharLen(seq[i])
                  /\ \A j \in 1..(i - 1) : CharLen(seq[j]) < CharLen(seq[i])
       IN <<seq[k]>> \o SortedByLenDesc(SubSeq(seq, 1, k - 1)
                                         \o SubSeq(seq, k + 1, Len(seq)))

\* seq[:n]
Take(seq, n) == SubSeq(seq, 1, IF n < Len(seq) THEN n ELSE Len(seq))

\* The same with the remaining sentences kept in the order of the text.
extract_key_facts_Unsorted(text) ==
  LET sentences == LongSentences(text)
      fact_sentences == SelectSeq(sentences, IsFactSentence)
      regular_sentences ==
        SelectSeq(sentences, LAMBDA x : ~In(x, fact_sentences))
  IN IF Len(fact_sentences) < MaxFacts
     THEN fact_sentences \o Take(regular_sentences, MaxFacts - Len(fact_sentences))
     ELSE fact_sentences

\* Lines 102-131.
extract_key_facts(text) ==
  LET sentences == LongSentences(text)
      fact_sentences == SelectSeq(sentences, IsFactSentence)
      regular_sentences ==
        SortedByLenDesc(SelectSeq(sentences, LAMBDA x : ~In(x, fact_sentences)))
  IN IF Len(fact_sentences) < MaxFacts
     THEN fact_sentences \o Take(regular_sentences, MaxFacts - Len(fact_sentences))
     ELSE fact_sentences

\* list.remove(x): seq without the first element equal to x.
RECURSIVE Remove(_, _)
Remove(seq, x) ==
  IF seq = << >> THEN << >>
  ELSE IF seq[1] = x THEN Tail(seq)
  ELSE <<seq[1]>> \o Remove(Tail(seq), x)

\* Lines 147-152: the words that are never a key term of a fact.
StopWords ==
  {"about", "after", "again", "below", "could", "every", "first", "found",
   "great", "house", "large", "learn", "never", "other", "place", "plant",
   "point", "right", "small", "sound", "spell", "still", "study", "their",
   "there", "these", "thing", "think", "three", "water", "where", "which",
   "world", "would", "write"}

\* Lines 145-152: key_terms of _generate_multiple_choice_question.
KeyTerms(fact) ==
  SelectSeq(fact, LAMBDA w : Len(w) > MinTermLen /\ Lower(w) \notin StopWords)

\* Lines 288-289: key_terms of _generate_generic_multiple_choice_question.
GenericKeyTerms(sentence) ==
  SelectSeq(sentence, LAMBDA w : Len(w) > MinTermLen /\ IsAlpha(w))

\* A question: its type, its correct answer (the words of it), the sentence it
\* was made from, and whether the generic fallback made it.
Question(question_type, correct_answer, source, generic) ==
  [question_type |-> question_type, correct_answer |-> correct_answer,
   source |-> source, generic |-> generic]

\* Lines 41-42.
NumMultipleChoice(n) == IF (6 * n) \div 10 > 1 THEN (6 * n) \div 10 ELSE 1
NumShortAnswer(n) == n - NumMultipleChoice(n)

NeedsMore_OneShort(qs, n) == Len(qs) + 1 < n

\* Line 63: the condition of the fallback loop.
NeedsMore(qs, n) == Len(qs) < n

\* random.shuffle(seq): every order of seq.
Shuffles(seq) ==
  {[i \in 1..Len(seq) |-> seq[f[i]]] :
     f \in {g \in [1..Len(seq) -> 1..Len(seq)] :
              \A a, b \in 1..Len(seq) : g[a] = g[b] => a = b}}

(***************************************************************************)
(* SpecQuiz: generate_quiz, one loop iteration per step.                   *)
(***************************************************************************)
\* The texts: up to MaxSentences sentences of SentencePool.
Texts == UNION {[1..n -> SentencePool] : n \in 0..MaxSentences}

\* Lines 32-42 have run.
InitQuiz ==
  /\ content \in Texts
  /\ num_questions \in 1..MaxQuestions
  /\ key_facts = extract_key_facts(content)
  /\ questions = << >>
  /\ qpc = "multiple_choice"
  /\ qi = 0
  /\ quiz = << >>

\* Where generate_quiz is after iteration qi + 1 of the loop it is in.
AfterIteration ==
  IF qpc = "multiple_choice" /\ qi + 1 < NumMultipleChoice(num_questions)
  THEN <<"multiple_choice", qi + 1>>
  ELSE IF qpc = "multiple_choice" /\ NumShortAnswer(num_questions) > 0
  THEN <<"short_answer", 0>>
  ELSE IF qpc = "short_answer" /\ qi + 1 < NumShortAnswer(num_questions)
  THEN <<"short_answer", qi + 1>>
  ELSE <<"generic", 0>>

\* Lines 45-51: one iteration of the multiple-choice loop.
MultipleChoiceStep ==
  /\ qpc = "multiple_choice"
  /\ IF key_facts = << >> THEN UNCHANGED <<key_facts, questions>>
     ELSE \E k \in 1..Len(key_facts) :
            LET fact == key_facts[k]
            IN /\ key_facts' = Remove(key_facts, fact)
               /\ IF KeyTerms(fact) = << >> THEN UNCHANGED questions
                  ELSE \E j \in 1..Len(KeyTerms(fact)) :
                         questions' = Append(questions,
                           Question("multiple_choice", <<KeyTerms(fact)[j]>>,
                                    fact, FALSE))
  /\ qpc' = AfterIteration[1]
  /\ qi' = AfterIteration[2]
  /\ UNCHANGED <<content, num_questions, quiz, notQuiz>>

\* Lines 54-60: one iteration of the short-answer loop.
ShortAnswerStep ==
  /\ qpc = "short_answer"
  /\ IF key_facts = << >> THEN UNCHANGED <<key_facts, questions>>
     ELSE \E k \in 1..Len(key_facts) :
            LET fact == key_facts[k]
            IN /\ key_facts' = Remove(key_facts, fact)
               /\ questions' = Append(questions,
                    Question("short_answer", fact, fact, FALSE))
  /\ qpc' = AfterIteration[1]
  /\ qi' = AfterIteration[2]
  /\ UNCHANGED <<content, num_questions, quiz, notQuiz>>

\* Lines 267-315: what _generate_generic_multiple_choice_question can return;
\* no question at all when it returns None.
GenericMultipleChoice(text) ==
  UNION {{Question("multiple_choice",
                   <<GenericKeyTerms(LongSentences(text)[k])[j]>>,
                   LongSentences(text)[k], TRUE) :
            j \in 1..Len(GenericKeyTerms(LongSentences(text)[k]))} :
         k \in 1..Len(LongSentences(text))}

\* Lines 317-353: what _generate_generic_short_answer_question can return.
GenericShortAnswer(text) ==
  {Question("short_answer", LongSentences(text)[k], LongSentences(text)[k], TRUE) :
     k \in 1..Len(LongSentences(text))}

\* Line 285 chose a sentence without a key term, or there is no sentence.
GenericMultipleChoiceCanBeNone(text) ==
  \/ LongSentences(text) = << >>
  \/ \E k \in 1..Len(LongSentences(text)) :
       GenericKeyTerms(LongSentences(text)[k]) = << >>

\* Lines 63-70: one iteration of the fallback loop.
GenericStep ==
  /\ qpc = "generic"
  /\ NeedsMore(questions, num_questions)
  /\ IF Len(questions) % 2 = 0
     THEN \/ \E q \in GenericMultipleChoice(content) :
               questions' = Append(questions, q)
          \/ GenericMultipleChoiceCanBeNone(content) /\ UNCHANGED questions
     ELSE \/ \E q \in GenericShortAnswer(content) :
               questions' = Append(questions, q)
          \/ LongSentences(content) = << >> /\ UNCHANGED questions
  /\ UNCHANGED <<content, num_questions, key_facts, qpc, qi, quiz, notQuiz>>

\* Lines 73-82: the loop is left, the questions are shuffled and cut.
ReturnQuiz ==
  /\ qpc = "generic"
  /\ ~NeedsMore(questions, num_questions)
  /\ \E shuffled \in Shuffles(questions) :
       /\ questions' = shuffled
       /\ quiz' = Take(shuffled, num_questions)
  /\ qpc' = "done"
  /\ UNCHANGED <<content, num_questions, key_facts, qi, notQuiz>>

NextQuiz == MultipleChoiceStep \/ ShortAnswerStep \/ GenericStep \/ ReturnQuiz

\* generate_quiz is called on a fresh database.
InitGenerateQuiz ==
  /\ InitAuth /\ InitQuiz /\ OptionsIdle /\ AttemptIdle /\ ExtractIdle
  /\ PagesIdle

SpecQuiz == InitGenerateQuiz /\ [][NextQuiz]_vars

\* The interpreter keeps executing generate_quiz: an iteration that can change
\* the state is eventually executed.
SpecQuizLive == SpecQuiz /\ WF_vars(NextQuiz)

(***************************************************************************)
(* SpecOptions: the options of one multiple-choice question, as            *)
(* _generate_multiple_choice_question (lines 157-171) and                  *)
(* _generate_generic_multiple_choice_question (lines 294-308) make them.   *)
(***************************************************************************)
\* Line 202: generic_distractors.
GenericDistractors ==
  {"option", "example", "factor", "element", "component", "feature",
   "aspect", "quality", "property", "attribute"}

\* re.findall(r'\b\w+\b', content): the words of the text.
WordsOf(text) == UNION {{text[k][j] : j \in 1..Len(text[k])} : k \in 1..Len(text)}

\* Lines 194-199: the similar words, lower-cased, without duplicates.
SimilarWords(correct_answer, text) ==
  {Lower(w) : w \in {x \in WordsOf(text) :
     /\ Len(x) - Len(correct_answer) <= MaxLenDiff
     /\ Len(correct_answer) - Len(x) <= MaxLenDiff
     /\ Lower(x) # Lower(correct_answer)
     /\ Len(x) > MinSimilarLen}}

\* random.sample(population, k): k elements of it, each taken once, in any
\* order.
Sample(population, k) ==
  {f \in [1..k -> population] : \A a, b \in 1..k : f[a] = f[b] => a = b}

\* _generate_distractors: every list it can return.
generate_distractors(correct_answer, text, num_distractors) ==
  LET similar_words == SimilarWords(correct_answer, text)
  IN IF Cardinality(similar_words) >= num_distractors
     THEN Sample(similar_words, num_distractors)
     ELSE {Take(a \o b, num_distractors) :
             a \in Sample(similar_words, Cardinality(similar_words)),
             b \in Sample(GenericDistractors,
                          num_distractors - Cardinality(similar_words))}

\* The terms a multiple-choice question of the text can ask about: a key term
\* of a key fact (line 158) or of a long sentence (line 295).
TargetTerms(text) ==
  UNION {{KeyTerms(extract_key_facts(text)[k])[j] :
            j \in 1..Len(KeyTerms(extract_key_facts(text)[k]))} :
         k \in 1..Len(extract_key_facts(text))}
  \cup
  UNION {{GenericKeyTerms(LongSentences(text)[k])[j] :
            j \in 1..Len(GenericKeyTerms(LongSentences(text)[k]))} :
         k \in 1..Len(LongSentences(text))}

OptionTexts == UNION {[1..n -> SentencePool] : n \in 0..MaxOptionSentences}

\* Lines 158-164 / 295-301 have run: a target term is chosen.
InitOptions ==
  /\ InitAuth
  /\ content \in OptionTexts
  /\ num_questions = 0
  /\ key_facts = << >>
  /\ questions = << >>
  /\ qpc = "idle"
  /\ qi = 0
  /\ quiz = << >>
  /\ target_term \in TargetTerms(content)
  /\ distractors = << >>
  /\ options = << >>
  /\ opc = "distractors"
  /\ AttemptIdle
  /\ ExtractIdle /\ PagesIdle

\* Lines 167 / 304.
GenerateDistractors ==
  /\ opc = "distractors"
  /\ distractors' \in generate_distractors(target_term, content, NumDistractors)
  /\ opc' = "shuffle"
  /\ UNCHANGED <<content, target_term, options, notOptions>>

\* Lines 170-171 / 307-308.
ShuffleOptions ==
  /\ opc = "shuffle"
  /\ options' \in Shuffles(<<target_term>> \o distractors)
  /\ opc' = "done"
  /\ UNCHANGED <<content, target_term, distractors, notOptions>>

NextOptions == GenerateDistractors \/ ShuffleOptions

SpecOptions == InitOptions /\ [][NextOptions]_vars

(***************************************************************************)
(* quiz_component.py: taking a quiz, its grading and its submission.       *)
(* Questions are numbered from 1 here (enumerate numbers them from 0).     *)
(***************************************************************************)
\* A question of current_quiz.
QuizQuestion(question_type, correct_answer, opts) ==
  [question_type |-> question_type, correct_answer |-> correct_answer,
   options |-> opts]

\* quiz["questions"] of generate_quiz for the 3 questions the slider asks for
\* at least, from a text of the three sentences below: a multiple-choice
\* question about "Plants" and two short-answer questions.
AttemptQuizzes ==
  { << QuizQuestion("multiple_choice", <<"Plants">>,
                    << <<"sugar">>, <<"Plants">>, <<"light">>, <<"water">> >>),
       QuizQuestion("short_answer",
                    <<"The", "mitochondria", "is", "the", "powerhouse">>, << >>),
       QuizQuestion("short_answer",
                    <<"We", "think", "water", "is", "there">>, << >>) >> }

\* What a user types into the text area of a short-answer question: the
\* words of it; empty is the empty string, no words and not empty is white
\* space only.
TextInput(empty, words) == [empty |-> empty, words |-> words]

ShortAnswerInputs ==
  { TextInput(TRUE, << >>),
    TextInput(FALSE, << >>),
    TextInput(FALSE, <<"THE", "mitochondria", "is", "the", "powerhouse">>),
    TextInput(FALSE, <<"is", "the">>),
    TextInput(FALSE, <<"the">>),
    TextInput(FALSE, <<"no", "idea">>),
    TextInput(FALSE, <<"We", "think", "water", "is", "there">>) }

\* set(text.lower().split())
Terms(words) == {Lower(words[i]) : i \in 1..Len(words)}

is_correct_short_answer_Strict(correct_answer, response) ==
  2 * Cardinality(Terms(correct_answer) \cap Terms(response.words))
    > Cardinality(Terms(correct_answer))

\* Lines 154-160: overlap >= len(correct_terms) * 0.5.
is_correct_short_answer(correct_answer, response) ==
  2 * Cardinality(Terms(correct_answer) \cap Terms(response.words))
    >= Cardinality(Terms(correct_answer))

\* A value of quiz_responses; 'question_id' is the index of enumerate, which
\* is one less than the position in the sequence of questions.
Response(question_id, response, is_correct) ==
  [question_id |-> question_id, response |-> response, is_correct |-> is_correct]

\* quiz_responses[i] = r
Store(responses, i, r) ==
  [j \in DOMAIN responses \cup {i} |-> IF j = i THEN r ELSE responses[j]]

\* render_quiz_section, lines 302-309: which view is rendered.
ResultsShown == quiz_results # NoResults
TakingShown == ~ResultsShown /\ current_quiz # NoQuiz
GeneratorShown == ~ResultsShown /\ current_quiz = NoQuiz

\* Lines 62-100: the Generate Quiz button.  One quiz per database is explored.
GenerateQuizButton ==
  /\ GeneratorShown
  /\ quizzes = << >>
  /\ \E q \in AttemptQuizzes :
       /\ current_quiz' = q
       /\ quiz_responses' = << >>
       /\ quiz_results' = NoResults
       /\ IF session_user # NoRow
          THEN /\ quizzes' = Append(quizzes, [created_by |-> session_user.id,
                                              questions |-> q])
               /\ quiz_attempts' =
                    Append(quiz_attempts,
                           [id |-> Len(quiz_attempts) + 1,
                            quiz_id |-> Len(quizzes) + 1,
                            user_id |-> session_user.id,
                            completed_at |-> NotCompleted,
                            score |-> NotCompleted,
                            max_score |-> NotCompleted])
               /\ quiz_attempt_id' = Len(quiz_attempts) + 1
          ELSE UNCHANGED <<quizzes, quiz_attempts, quiz_attempt_id>>
  /\ UNCHANGED <<session_user, question_responses, now, notAttempt>>

\* Lines 125-142: a radio button of a multiple-choice question is selected.
AnswerMultipleChoice(i, k) ==
  /\ TakingShown
  /\ i \in 1..Len(current_quiz)
  /\ current_quiz[i].question_type = "multiple_choice"
  /\ k \in 1..Len(current_quiz[i].options)
  /\ LET response == current_quiz[i].options[k]
     IN quiz_responses' =
          Store(quiz_responses, i,
                Response(i - 1, response,
                         response = current_quiz[i].correct_answer))
  /\ UNCHANGED <<session_user, current_quiz, quiz_attempt_id, quiz_results,
                 quizzes, quiz_attempts, question_responses, now, notAttempt>>

\* Lines 144-166: the text area of a short-answer question is edited.
AnswerShortAnswer(i, response) ==
  /\ TakingShown
  /\ i \in 1..Len(current_quiz)
  /\ current_quiz[i].question_type = "short_answer"
  /\ IF ~response.empty
     THEN quiz_responses' =
            Store(quiz_responses, i,
                  Response(i - 1, response.words,
                           is_correct_short_answer(current_quiz[i].correct_answer,
                                                   response)))
     ELSE UNCHANGED quiz_responses
  /\ UNCHANGED <<session_user, current_quiz, quiz_attempt_id, quiz_results,
                 quizzes, quiz_attempts, question_responses, now, notAttempt>>

CorrectCount_Answered(responses) == Cardinality(DOMAIN responses)

\* Line 184: correct_count.
CorrectCount(responses) ==
  Cardinality({i \in DOMAIN responses : responses[i].is_correct})

\* Line 186: score = (correct_count / total_questions) * 100, kept as the
\* fraction percent / of so that nothing is rounded.
Percentage(correct_count, total_questions) ==
  IF total_questions > 0
  THEN [percent |-> 100 * correct_count, of |-> total_questions]
  ELSE [percent |-> 0, of |-> 1]

\* Lines 189-194: quiz_results (the per-question details are left out).
Results(responses, quiz_questions) ==
  [score |-> Percentage(CorrectCount(responses), Len(quiz_questions)),
   correct_count |-> CorrectCount(responses),
   total_questions |-> Len(quiz_questions)]

\* Lines 250-255: the message shown with the score.
Feedback(results) ==
  IF results.score.percent >= ExcellentPercent * results.score.of THEN "success"
  ELSE IF results.score.percent >= GoodPercent * results.score.of THEN "info"
  ELSE "warning"

\* database.py add_question: the ids (AUTOINCREMENT, rows are never deleted)
\* given to the questions of quiz quiz_id, in the order of lines 85-92.
RECURSIVE QuestionsBefore(_, _)
QuestionsBefore(qz, quiz_id) ==
  IF quiz_id <= 1 THEN 0
  ELSE QuestionsBefore(qz, quiz_id - 1) + Len(qz[quiz_id - 1].questions)

add_question_ids(qz, quiz_id) ==
  [k \in 1..Len(qz[quiz_id].questions) |-> QuestionsBefore(qz, quiz_id) + k]

\* Lines 215-226: record_question_response for every response, with
\* question_db_id = i, the index of enumerate (position i of a sequence here
\* is index i - 1 there).
RECURSIVE RecordResponses(_, _, _, _)
RecordResponses(rows, attempt_id, responses, todo) ==
  IF todo = {} THEN rows
  ELSE LET i == CHOOSE x \in todo : \A y \in todo : x <= y
       IN RecordResponses(
            Append(rows, [attempt_id |-> attempt_id, question_id |-> i - 1,
                          user_response |-> responses[i].response,
                          is_correct |-> responses[i].is_correct]),
            attempt_id, responses, todo \ {i})

\* database.py complete_quiz_attempt: UPDATE quiz_attempts ... WHERE id = ?
complete_quiz_attempt(attempts, attempt_id, score, max_score, clock) ==
  [i \in 1..Len(attempts) |->
     IF attempts[i].id = attempt_id
     THEN [attempts[i] EXCEPT !.completed_at = clock, !.score = score,
                              !.max_score = max_score]
     ELSE attempts[i]]

\* The same without the check of line 172.
SubmitQuiz_Unchecked(d) ==
  /\ TakingShown
  /\ now + d <= MaxTime
  /\ now' = now + d
  /\ quiz_results' = Results(quiz_responses, current_quiz)
  /\ IF session_user # NoRow /\ quiz_attempt_id # NoAttempt
     THEN /\ question_responses' =
               RecordResponses(question_responses, quiz_attempt_id,
                               quiz_responses, DOMAIN quiz_responses)
          /\ quiz_attempts' =
               complete_quiz_attempt(quiz_attempts, quiz_attempt_id,
                                     CorrectCount(quiz_responses),
                                     Len(current_quiz), now + d)
     ELSE UNCHANGED <<question_responses, quiz_attempts>>
  /\ UNCHANGED <<session_user, current_quiz, quiz_attempt_id, quiz_responses,
                 quizzes, notAttempt>>

\* Lines 171-176 and _process_quiz_submission: the Submit Quiz button, pressed
\* d ticks after the last action.
SubmitQuiz(d) ==
  /\ TakingShown
  /\ now + d <= MaxTime
  /\ IF Cardinality(DOMAIN quiz_responses) < Len(current_quiz)
     THEN UNCHANGED <<quiz_results, question_responses, quiz_attempts, now>>
     ELSE /\ now' = now + d
          /\ quiz_results' = Results(quiz_responses, current_quiz)
          /\ IF session_user # NoRow /\ quiz_attempt_id # NoAttempt
             THEN /\ question_responses' =
                       RecordResponses(question_responses, quiz_attempt_id,
                                       quiz_responses, DOMAIN quiz_responses)
                  /\ quiz_attempts' =
                       complete_quiz_attempt(quiz_attempts, quiz_attempt_id,
                                             CorrectCount(quiz_responses),
                                             Len(current_quiz), now + d)
             ELSE UNCHANGED <<question_responses, quiz_attempts>>
  /\ UNCHANGED <<session_user, current_quiz, quiz_attempt_id, quiz_responses,
                 quizzes, notAttempt>>

\* One retake of a recorded attempt is explored.
RetakeExplored == Len(question_responses) <= Len(current_quiz)

\* Lines 280-285: the Retake Quiz button; quiz_attempt_id is kept.
RetakeQuiz ==
  /\ ResultsShown
  /\ RetakeExplored
  /\ quiz_responses' = << >>
  /\ quiz_results' = NoResults
  /\ UNCHANGED <<session_user, current_quiz, quiz_attempt_id, quizzes,
                 quiz_attempts, question_responses, now, notAttempt>>

\* Lines 288-293: the New Quiz button.
NewQuiz ==
  /\ ResultsShown
  /\ current_quiz' = NoQuiz
  /\ quiz_responses' = << >>
  /\ quiz_results' = NoResults
  /\ quiz_attempt_id' = NoAttempt
  /\ UNCHANGED <<session_user, quizzes, quiz_attempts, question_responses,
                 now, notAttempt>>

\* A session on a database with one registered user, who is logged in or not.
InitAttempt ==
  /\ users = register_user(<< >>, << >>, "bob", "password1", Null, Null,
                           "s1", 0, 0).users
  /\ invites = << >>
  /\ now = 0
  /\ result = NoCall
  /\ created_via = <<Null>>
  /\ sess = [s \in Sessions |-> Idle]
  /\ QuizIdle
  /\ OptionsIdle
  /\ session_user \in {NoRow, users[1]}
  /\ current_quiz = NoQuiz
  /\ quiz_attempt_id = NoAttempt
  /\ quiz_responses = << >>
  /\ quiz_results = NoResults
  /\ quizzes = << >>
  /\ quiz_attempts = << >>
  /\ question_responses = << >>
  /\ ExtractIdle /\ PagesIdle

NextAttempt ==
  \/ GenerateQuizButton
  \/ \E i \in 1..Len(current_quiz), k \in 1..NumDistractors + 1 :
       AnswerMultipleChoice(i, k)
  \/ \E i \in 1..Len(current_quiz), response \in ShortAnswerInputs :
       AnswerShortAnswer(i, response)
  \/ \E d \in Elapse : SubmitQuiz(d)
  \/ RetakeQuiz
  \/ NewQuiz

SpecAttempt == InitAttempt /\ [][NextAttempt]_vars

(***************************************************************************)
(* SpecExtract: image_handler.py, pdf_handler.py, docx_handler.py.         *)
(* A text is the sequence of its words; it begins with "Error" when its    *)
(* first word is "Error", and "Error" is in it when it is one of its words.*)
(***************************************************************************)
\* What a file can hold as text.
FileTexts ==
  { << >>,
    <<"Cells", "are", "small">>,
    <<"Error", "rates", "are", "small">>,
    <<"No", "Error", "was", "found">> }

\* str(e) of an exception, or the stderr of pdftotext.
ErrorDetails == { << >>, <<"Incorrect", "password">> }

\* What a library call does with the file: it returns the text, fails with a
\* detail (raises, or exits with a non-zero code), or finds the file encrypted.
Outcome(status, text) == [status |-> status, text |-> text]

Outcomes ==
  {Outcome("ok", t) : t \in FileTexts} \cup
  {Outcome("failed", d) : d \in ErrorDetails}

\* PyPDF2.PdfReader also reports is_encrypted.
PyPDF2Outcomes == Outcomes \cup {Outcome("encrypted", << >>)}

\* The uploaded files: pytesseract / python-docx decide what an image / DOCX
\* yields; pdftotext and PyPDF2 do for a PDF.
Uploads ==
  {[kind |-> k, library |-> o] : k \in {"image", "docx"}, o \in Outcomes} \cup
  {[kind |-> "pdf", pdftotext |-> a, pypdf2 |-> b] :
     a \in Outcomes, b \in PyPDF2Outcomes}

\* "Error" in text
ContainsError(text) == \E i \in 1..Len(text) : text[i] = "Error"

\* image_handler.py lines 43-63, docx_handler.py lines 41-69.
extract_text(outcome) ==
  IF outcome.status = "ok" THEN outcome.text
  ELSE <<"Error", "extracting", "text:">> \o outcome.text

\* pdf_handler.py lines 71-106.
extract_text_with_pdftotext(outcome) ==
  IF outcome.status = "ok" THEN outcome.text
  ELSE <<"Error", "using", "pdftotext:">> \o outcome.text

\* pdf_handler.py lines 43-69.
extract_text_with_pypdf2(outcome) ==
  IF outcome.status = "encrypted"
  THEN <<"This", "PDF", "is", "encrypted", "and", "requires", "a", "password",
         "for", "text", "extraction.">>
  ELSE IF outcome.status = "ok" THEN outcome.text
  ELSE <<"Error", "extracting", "text", "with", "PyPDF2:">> \o outcome.text

\* A file has been saved.
InitExtract ==
  /\ InitAuth
  /\ QuizIdle
  /\ OptionsIdle
  /\ AttemptIdle
  /\ PagesIdle
  /\ upload \in Uploads
  /\ extracted_text = << >>
  /\ xpc = "saved"

\* process_image lines 76-79, process_docx.
ExtractText ==
  /\ xpc = "saved"
  /\ upload.kind \in {"image", "docx"}
  /\ extracted_text' = extract_text(upload.library)
  /\ xpc' = "done"
  /\ UNCHANGED <<upload, notExtract>>

\* process_pdf line 122.
ExtractWithPdftotext ==
  /\ xpc = "saved"
  /\ upload.kind = "pdf"
  /\ extracted_text' = extract_text_with_pdftotext(upload.pdftotext)
  /\ xpc' = "pdftotext"
  /\ UNCHANGED <<upload, notExtract>>

\* process_pdf lines 125-128.
FallBackOrReturn ==
  /\ xpc = "pdftotext"
  /\ IF extracted_text = << >> \/ ContainsError(extracted_text)
     THEN extracted_text' = extract_text_with_pypdf2(upload.pypdf2)
     ELSE UNCHANGED extracted_text
  /\ xpc' = "done"
  /\ UNCHANGED <<upload, notExtract>>

NextExtract == ExtractText \/ ExtractWithPdftotext \/ FallBackOrReturn

SpecExtract == InitExtract /\ [][NextExtract]_vars

(***************************************************************************)
(* SpecFacts: _extract_key_facts (lines 102-131) on texts long enough for  *)
(* the limit of 10 facts to matter.                                        *)
(***************************************************************************)
\* Sentences of these texts: a strong fact, a fragment of 15 characters, and
\* two plain sentences of 28 and 23 characters.
FactSentencePool ==
  { <<"The", "mitochondria", "is", "the", "powerhouse">>,
    <<"Cells", "are", "small">>,
    <<"Plants", "make", "sugar", "from", "light">>,
    <<"We", "think", "water", "is", "there">> }

\* The sentence s, n times.
Run(s, n) == [i \in 1..n |-> s]

\* The texts of four runs of up to max_run equal sentences each.
RunTexts(max_run) ==
  {Run(s1, n1) \o Run(s2, n2) \o Run(s3, n3) \o Run(s4, n4) :
     s1 \in FactSentencePool, s2 \in FactSentencePool, s3 \in FactSentencePool, s4 \in FactSentencePool,
     n1 \in 0..max_run, n2 \in 0..max_run, n3 \in 0..max_run,
     n4 \in 0..max_run}

\* Lines 32: the content is preprocessed, nothing is extracted yet.
InitFacts ==
  /\ InitAuth /\ OptionsIdle /\ AttemptIdle /\ ExtractIdle /\ PagesIdle
  /\ content \in RunTexts(MaxRun)
  /\ num_questions = 0
  /\ key_facts = << >>
  /\ questions = << >>
  /\ qpc = "preprocessed"
  /\ qi = 0
  /\ quiz = << >>

\* Line 35: key_facts = self._extract_key_facts(processed_content)
ExtractKeyFacts ==
  /\ qpc = "preprocessed"
  /\ key_facts' = extract_key_facts(content)
  /\ qpc' = "facts"
  /\ UNCHANGED <<content, num_questions, questions, qi, quiz, notQuiz>>

SpecFacts == InitFacts /\ [][ExtractKeyFacts]_vars

(***************************************************************************)
(* SpecConvert: _convert_to_question (lines 236-265) on one statement.     *)
(***************************************************************************)
\* Words of the statements: the six template verbs, one of them also
\* capitalised, and a noun.
StatementWords ==
  {"is", "are", "was", "were", "has", "have", "Are", "Cells"}

\* The statements of up to max_len words.
Statements(max_len) == UNION {[1..n -> StatementWords] : n \in 0..max_len}

\* re.match(r'.+ verb .+', statement, re.IGNORECASE): the verb is a word of
\* the statement, in any case, with a word before it and a word after it.
MatchesTemplate(s, verb) ==
  \E i \in 2..(Len(s) - 1) : Lower(s[i]) = verb

\* re.sub(r'(.+) verb (.+)', ...): the first group is greedy, it ends before
\* the last such occurrence of the verb; the question is made of it.
TemplateQuestion(s, verb) ==
  LET last == CHOOSE i \in 2..(Len(s) - 1) :
                /\ Lower(s[i]) = verb
                /\ \A j \in (i + 1)..(Len(s) - 1) : Lower(s[j]) # verb
  IN [template |-> verb, subject |-> SubSeq(s, 1, last - 1)]

\* The same with the second pattern tried first.
convert_to_question_AreFirst(s) ==
  IF MatchesTemplate(s, "are") THEN TemplateQuestion(s, "are")
  ELSE IF MatchesTemplate(s, "is") THEN TemplateQuestion(s, "is")
  ELSE IF MatchesTemplate(s, "was") THEN TemplateQuestion(s, "was")
  ELSE IF MatchesTemplate(s, "were") THEN TemplateQuestion(s, "were")
  ELSE IF MatchesTemplate(s, "has") THEN TemplateQuestion(s, "has")
  ELSE IF MatchesTemplate(s, "have") THEN TemplateQuestion(s, "have")
  ELSE [template |-> "generic", subject |-> s]

\* Lines 249-263: the chain of if/elif, and the generic question.
convert_to_question(s) ==
  IF MatchesTemplate(s, "is") THEN TemplateQuestion(s, "is")
  ELSE IF MatchesTemplate(s, "are") THEN TemplateQuestion(s, "are")
  ELSE IF MatchesTemplate(s, "was") THEN TemplateQuestion(s, "was")
  ELSE IF MatchesTemplate(s, "were") THEN TemplateQuestion(s, "were")
  ELSE IF MatchesTemplate(s, "has") THEN TemplateQuestion(s, "has")
  ELSE IF MatchesTemplate(s, "have") THEN TemplateQuestion(s, "have")
  ELSE [template |-> "generic", subject |-> s]

\* _convert_to_question is called with a statement (line 246: stripped).
InitConvert ==
  /\ InitAuth /\ QuizIdle /\ OptionsIdle /\ AttemptIdle /\ ExtractIdle
  /\ ReportIdle /\ SessionIdle /\ AudioIdle /\ ExplainIdle
  /\ statement \in Statements(MaxStatementLen)
  /\ question = NoQuestion

\* Line 265: return question
ConvertToQuestion ==
  /\ question = NoQuestion
  /\ question' = convert_to_question(statement)
  /\ UNCHANGED <<statement, notConvert>>

SpecConvert == InitConvert /\ [][ConvertToQuestion]_vars

(***************************************************************************)
(* SpecReport: ReportGenerator.prepare_report_data (report_generator.py    *)
(* lines 267-399) on what Database.get_user_quiz_history returns.          *)
(***************************************************************************)
\* A row of quiz_attempts as get_user_quiz_history returns it (SELECT qa.*):
\* NotCompleted stands for NULL, which dict(a) turns into None.
HistoryRows ==
  {[id |-> 0, completed_at |-> NotCompleted, score |-> NotCompleted,
    max_score |-> NotCompleted]}
  \cup {[id |-> 0, completed_at |-> t, score |-> s, max_score |-> MaxQuestions] :
          t \in 0..MaxTime, s \in 0..MaxQuestions}

\* The histories of a user with up to max_attempts attempts, the latest
\* first (ORDER BY qa.started_at DESC).
Histories(max_attempts) ==
  UNION {{[i \in 1..n |-> [h[i] EXCEPT !.id = n + 1 - i]] :
            h \in [1..n -> HistoryRows]} : n \in 0..max_attempts}

\* The text SQLite's CURRENT_TIMESTAMP stored at clock t, and what
\* datetime.fromisoformat(...).strftime('%B %d, %Y') makes of it.
IsoTimestamp(t) == [format |-> "%Y-%m-%d %H:%M:%S", at |-> t]
strftime(d) == [format |-> "%B %d, %Y", at |-> d.at]
Incomplete == [format |-> "Incomplete", at |-> NotCompleted]

\* datetime.datetime.fromisoformat(d) raises ValueError unless d is in ISO
\* format.
fromisoformat_raises(d) == d.format # "%Y-%m-%d %H:%M:%S"

\* Lines 314-320: quiz_result['date'] of an attempt.
ResultDate(attempt) ==
  IF attempt.completed_at # NotCompleted
  THEN strftime(IsoTimestamp(attempt.completed_at))
  ELSE Incomplete

\* prepare_report_data: lines 293-297 compare every attempt's max_score
\* with 0, which raises TypeError on None; lines 335-339 sort the results
\* by fromisoformat of the date formatted in line 320; what is left (lines
\* 341-399) is reached with no completed attempt only.
prepare_report_data(history) ==
  IF \E i \in 1..Len(history) : history[i].max_score = NotCompleted
  THEN [raised |-> "TypeError"]
  ELSE IF \E i \in 1..Len(history) :
            /\ ResultDate(history[i]) # Incomplete
            /\ fromisoformat_raises(ResultDate(history[i]))
  THEN [raised |-> "ValueError"]
  ELSE [raised |-> "none", total_quizzes |-> Len(history), average_score |-> 0,
        overall_progress |-> "Needs Improvement",
        trend_description |->
          IF Len(history) >= 2 THEN "remained consistent"
          ELSE "not shown a clear trend yet due to limited data"]

\* report_component.py line 45: quiz_history = get_user_quiz_history(...)
InitReport ==
  /\ InitAuth /\ QuizIdle /\ OptionsIdle /\ AttemptIdle /\ ExtractIdle
  /\ ConvertIdle /\ SessionIdle /\ AudioIdle /\ ExplainIdle
  /\ quiz_history \in Histories(MaxAttempts)
  /\ report_data = NotPrepared

\* report_component.py lines 146-151: Generate Report is pressed.
PrepareReportData ==
  /\ report_data = NotPrepared
  /\ report_data' = prepare_report_data(quiz_history)
  /\ UNCHANGED <<quiz_history, notReport>>

SpecReport == InitReport /\ [][PrepareReportData]_vars

(***************************************************************************)
(* SpecSession: st.session_state of one browser session of                 *)
(* streamlit_app.py.  Every click reruns the script from its top: lines    *)
(* 39-43 and 78-79, then main(), whose first statement renders the         *)
(* sidebar.  A step is one click with the run that handles it and the run  *)
(* st.experimental_rerun() starts.                                         *)
(***************************************************************************)
\* The keys initialize_app stores its objects under (lines 48-75).
ComponentKeys ==
  {"db", "upload_manager", "upload_component", "lesson_explainer",
   "explanation_component", "tts_handler", "tts_component", "quiz_generator",
   "quiz_component", "report_generator", "report_component", "auth_manager",
   "auth_component"}

\* The pages of the sidebar's navigation buttons (lines 138-156).
Pages == {"Home", "Upload", "Lessons", "Quizzes", "Reports"}

\* What login_user returns as result["user"]: the administrator and a user
\* without a subscription.
SessionUsers == {[id |-> 1, is_admin |-> TRUE], [id |-> 2, is_admin |-> FALSE]}

\* Lines 39-43: the keys of a new session.
NewSession(state) ==
  IF "initialized" \in DOMAIN state THEN state
  ELSE Store(Store(Store(state, "initialized", FALSE), "current_page", "Home"),
             "user", NoRow)

\* initialize_app (lines 45-77): the objects, the keys their constructors
\* create if they are missing, and initialized = True.
initialize_app(state) ==
  [k \in DOMAIN state \cup ComponentKeys
         \cup {"uploaded_files", "current_explanation", "current_quiz"} |->
     IF k \in ComponentKeys THEN "object"
     ELSE IF k = "initialized" THEN TRUE
     ELSE IF k \in DOMAIN state THEN state[k]
     ELSE IF k = "uploaded_files" THEN 0
     ELSE Null]

\* Lines 39-43 and 78-79: the top of the script.
ScriptTop(state) ==
  IF NewSession(state)["initialized"] THEN NewSession(state)
  ELSE initialize_app(NewSession(state))

\* render_sidebar (lines 127-132) reads st.session_state.auth_component,
\* which raises AttributeError when the key is missing.
Rendered(state) ==
  IF "auth_component" \in DOMAIN state THEN "rendered" ELSE "AttributeError"

\* check_access (lines 259-269), for a user without a subscription.
HasAccess(state) == state["user"] # NoRow /\ state["user"].is_admin

\* Lines 129-133 of auth_component.py: every key but initialized and
\* current_page is deleted and user is set to None.
Logout(state) ==
  Store([k \in DOMAIN state \cap {"initialized", "current_page"} |-> state[k]],
        "user", NoRow)

\* The session after the script has run on state.
AfterRun(state) ==
  /\ session_state' = ScriptTop(state)
  /\ script_run' = Rendered(ScriptTop(state))
  /\ UNCHANGED notSession

\* The browser opens the application.
OpenApp ==
  /\ script_run = "none"
  /\ AfterRun(session_state)

\* Lines 138-156: a navigation button.
Navigate(page) ==
  /\ script_run = "rendered"
  /\ session_state["current_page"] # page
  /\ AfterRun(Store(session_state, "current_page", page))

\* auth_component.py lines 41-53: the login form, shown to a visitor on
\* every page; login_user succeeded.
LoginForm(user) ==
  /\ script_run = "rendered"
  /\ session_state["user"] = NoRow
  /\ AfterRun(Store(session_state, "user", user))

\* auth_component.py lines 128-135: the Logout button of the sidebar.
LogoutButton ==
  /\ script_run = "rendered"
  /\ session_state["user"] # NoRow
  /\ AfterRun(Logout(session_state))

\* upload_component.py lines 55-77: Process Uploads adds a file.
ProcessUploads ==
  /\ script_run = "rendered"
  /\ session_state["current_page"] = "Upload"
  /\ HasAccess(session_state)
  /\ session_state["uploaded_files"] < MaxUploads
  /\ AfterRun(Store(session_state, "uploaded_files",
                    session_state["uploaded_files"] + 1))

\* explanation_component.py lines 64-87: Generate Explanation for an
\* uploaded file, at a complexity level.
GenerateExplanationButton(level) ==
  /\ script_run = "rendered"
  /\ session_state["current_page"] = "Lessons"
  /\ HasAccess(session_state)
  /\ session_state["uploaded_files"] > 0
  /\ AfterRun(Store(session_state, "current_explanation", level))

\* quiz_component.py lines 49-72: Generate Quiz from the current explanation.
GenerateQuizFromExplanation ==
  /\ script_run = "rendered"
  /\ session_state["current_page"] = "Quizzes"
  /\ HasAccess(session_state)
  /\ session_state["current_explanation"] # Null
  /\ session_state["current_quiz"] = Null
  /\ AfterRun(Store(session_state, "current_quiz", "quiz"))

InitSession ==
  /\ InitAuth /\ QuizIdle /\ OptionsIdle /\ AttemptIdle /\ ExtractIdle
  /\ ConvertIdle /\ ReportIdle /\ AudioIdle /\ ExplainIdle
  /\ SessionIdle

NextSession ==
  \/ OpenApp
  \/ \E page \in Pages : Navigate(page)
  \/ \E user \in SessionUsers : LoginForm(user)
  \/ LogoutButton
  \/ ProcessUploads
  \/ \E level \in {"simple", "medium", "advanced"} :
       GenerateExplanationButton(level)
  \/ GenerateQuizFromExplanation

SpecSession == InitSession /\ [][NextSession]_vars

(***************************************************************************)
(* The segment audio player (tts_component.py lines 36-124, called from    *)
(* upload_component.py lines 133-161 and 205-206).                         *)
(***************************************************************************)

\* upload_component.py line 141: segment_id = f"{saved_fn}_seg_{seg_idx}".
Segments == {"notes.pdf_seg_0", "notes.pdf_seg_1", "notes.pdf_seg_2"}

\* text_to_speech.py lines 41-42: f"{uuid.uuid4().hex}.mp3" in the audio
\* folder, a name no file of the folder has.
AudioFileNames == <<"audio/0a.mp3", "audio/1b.mp3", "audio/2c.mp3",
                    "audio/3d.mp3", "audio/4e.mp3">>
AudioPaths == {AudioFileNames[n] : n \in 1..MaxAudioFiles}

\* tts_component.py line 61 over text_to_speech.py lines 54-59.
GenerationErrors == {"Failed to generate audio: Connection error"}

\* The player's keys of st.session_state, and the files of the audio folder.
AudioState ==
  [generate_audio_for_segment |-> generate_audio_for_segment,
   current_audio_segment_id |-> current_audio_segment_id,
   current_audio_path |-> current_audio_path,
   audio_generation_error |-> audio_generation_error,
   audio_files |-> audio_files]

SetAudioState(s) ==
  /\ generate_audio_for_segment' = s.generate_audio_for_segment
  /\ current_audio_segment_id' = s.current_audio_segment_id
  /\ current_audio_path' = s.current_audio_path
  /\ audio_generation_error' = s.audio_generation_error
  /\ audio_files' = s.audio_files
  /\ UNCHANGED notAudio

\* tts_component.py lines 110-124: _clear_current_audio.  removed is whether
\* os.remove succeeded (lines 113-117 catch its exception).
clear_current_audio(s, removed) ==
  [generate_audio_for_segment |-> Null,
   current_audio_segment_id |-> Null,
   current_audio_path |-> Null,
   audio_generation_error |-> Null,
   audio_files |-> IF s.current_audio_path # Null /\ removed
                   THEN s.audio_files \ {s.current_audio_path}
                   ELSE s.audio_files]

\* The trigger set without clearing the audio already loaded.
trigger_audio_generation_for_segment_NoClear(s, segment_id, removed) ==
  [s EXCEPT !.generate_audio_for_segment = segment_id]

\* tts_component.py lines 100-108: trigger_audio_generation_for_segment.
trigger_audio_generation_for_segment(s, segment_id, removed) ==
  [clear_current_audio(s, removed)
     EXCEPT !.generate_audio_for_segment = segment_id]

\* tts_component.py lines 47-65: the generation branch of
\* render_audio_player_for_segment; speech is generate_speech's dict.
GenerateAudio(s, segment_id, speech) ==
  [generate_audio_for_segment |-> Null,
   current_audio_segment_id |-> segment_id,
   current_audio_path |-> IF speech.success THEN speech.file_path ELSE Null,
   audio_generation_error |-> IF speech.success THEN Null ELSE speech.error,
   audio_files |-> IF speech.success
                   THEN s.audio_files \cup {speech.file_path}
                   ELSE s.audio_files]

\* text_to_speech.py lines 27-60: generate_speech saves a new file, or
\* reports the exception.
SpeechResults(s) ==
  {[success |-> TRUE, file_path |-> p, error |-> Null] :
     p \in AudioPaths \ s.audio_files}
  \cup {[success |-> FALSE, file_path |-> Null, error |-> e] :
          e \in GenerationErrors}

\* tts_component.py line 68: audio of this segment is loaded.
AudioLoaded(s, segment_id) ==
  s.current_audio_segment_id = segment_id /\ s.current_audio_path # Null

\* tts_component.py line 91: generation failed for this segment.
ErrorShown(s, segment_id) ==
  /\ ~AudioLoaded(s, segment_id)
  /\ s.current_audio_segment_id = segment_id
  /\ s.audio_generation_error # Null

\* upload_component.py lines 155-157: the Play button of a segment.
Play(segment_id) ==
  \E removed \in BOOLEAN :
    SetAudioState(trigger_audio_generation_for_segment(AudioState,
                                                       segment_id, removed))

\* tts_component.py lines 36-97 without the buttons:
\* render_audio_player_for_segment generates the requested audio, or clears
\* the state when the loaded file is gone or cannot be read.
RenderSegment(segment_id) ==
  IF generate_audio_for_segment = segment_id
  THEN \E speech \in SpeechResults(AudioState) :
         SetAudioState(GenerateAudio(AudioState, segment_id, speech))
  ELSE /\ AudioLoaded(AudioState, segment_id)
       /\ \/ /\ current_audio_path \notin audio_files
             /\ SetAudioState(clear_current_audio(AudioState, FALSE))
          \/ /\ current_audio_path \in audio_files
             /\ \E removed \in BOOLEAN :
                  SetAudioState(clear_current_audio(AudioState, removed))

\* tts_component.py lines 76-78: Clear Audio, under the player.
ClearAudio(segment_id) ==
  /\ generate_audio_for_segment # segment_id
  /\ AudioLoaded(AudioState, segment_id)
  /\ current_audio_path \in audio_files
  /\ \E removed \in BOOLEAN :
       SetAudioState(clear_current_audio(AudioState, removed))

\* tts_component.py lines 94-97: Clear Error, under the error message.
ClearError(segment_id) ==
  /\ generate_audio_for_segment # segment_id
  /\ ErrorShown(AudioState, segment_id)
  /\ SetAudioState([AudioState EXCEPT !.audio_generation_error = Null,
                                      !.current_audio_segment_id = Null])

\* upload_component.py lines 196-208: removing an uploaded file clears the
\* current audio.
RemoveUploadedFile ==
  \E removed \in BOOLEAN :
    SetAudioState(clear_current_audio(AudioState, removed))

\* tts_component.py lines 84-88: "Audio file not found. It might have been
\* cleared": a file of the audio folder is deleted outside the player.
AudioFileDeleted ==
  \E p \in audio_files :
    SetAudioState([AudioState EXCEPT !.audio_files = audio_files \ {p}])

InitAudio ==
  /\ InitAuth /\ QuizIdle /\ OptionsIdle /\ AttemptIdle /\ ExtractIdle
  /\ ConvertIdle /\ ReportIdle /\ SessionIdle /\ ExplainIdle
  /\ AudioIdle

NextAudio ==
  \/ \E segment_id \in Segments : Play(segment_id)
  \/ \E segment_id \in Segments : RenderSegment(segment_id)
  \/ \E segment_id \in Segments : ClearAudio(segment_id)
  \/ \E segment_id \in Segments : ClearError(segment_id)
  \/ RemoveUploadedFile
  \/ AudioFileDeleted

SpecAudio == InitAudio /\ [][NextAudio]_vars

(***************************************************************************)
(* generate_explanation (lesson_explainer.py lines 18-202).  A text is     *)
(* the sequence of its blocks, the pieces between blank lines ("\n\n");    *)
(* the texts here are shorter than MAX_TEXT_CHARS_FOR_EXPLANATION, so the  *)
(* truncation of lines 39-43 leaves them whole and adds no warning.        *)
(***************************************************************************)

\* Blocks of a text: two paragraphs, a line of spaces and a page number.
Blocks == {"The ratio of apples to oranges is 5 to 10.",
           "Plants use sunlight to make food.",
           "  ", "Page 3"}

ComplexityLevels == {"simple", "medium", "advanced"}

\* All texts of at most max_paragraphs blocks.
LessonTexts(max_paragraphs) ==
  UNION {[1..n -> Blocks] : n \in 0..max_paragraphs}

\* lesson_explainer.py lines 67-77: _preprocess_text on one block: runs of
\* spaces become one space, a page-number line becomes empty.
preprocess_block(block) ==
  CASE block = "  " -> " "
    [] block = "Page 3" -> ""
    [] OTHER -> block

\* str.strip() of a preprocessed block.
strip(block) == IF block = " " THEN "" ELSE block

\* lesson_explainer.py line 141 (and 182, 196):
\* [p.strip() for p in text.split('\n\n') if p.strip()].
paragraphs_of(text) ==
  LET stripped == [i \in 1..Len(text) |-> strip(preprocess_block(text[i]))]
  IN SelectSeq(stripped, LAMBDA p : p # "")

\* lesson_explainer.py lines 79-119: _identify_subject without a file name.
identify_subject(paragraphs) ==
  IF \E i \in 1..Len(paragraphs) :
       paragraphs[i] = "The ratio of apples to oranges is 5 to 10."
  THEN "mathematics"
  ELSE "general"

\* lesson_explainer.py lines 180-188: _generate_simple_explanation quotes the
\* first paragraph, or nothing.
generate_simple_explanation(paragraphs, subject) ==
  [raised |-> "none", kind |-> "simple", subject |-> subject,
   quoted |-> IF paragraphs # << >> THEN <<paragraphs[1]>> ELSE << >>]

\* lesson_explainer.py lines 190-202: _generate_advanced_explanation builds
\* min(len(paragraphs), 3) key concepts and formats key_concepts[0], [1], [2].
generate_advanced_explanation(paragraphs, subject) ==
  LET key_concepts == Take([i \in 1..Len(paragraphs) |-> i], 3)
  IN IF Len(key_concepts) < 3
     THEN [raised |-> "IndexError"]
     ELSE [raised |-> "none", kind |-> "advanced", subject |-> subject,
           quoted |-> << >>]

\* lesson_explainer.py lines 121-178: _generate_teacher_explanation
\* summarises up to five paragraphs.
generate_teacher_explanation(paragraphs, subject) ==
  [raised |-> "none", kind |-> "teacher", subject |-> subject,
   quoted |-> Take(paragraphs, 5)]

\* lesson_explainer.py line 37: "I don't see any content to explain. Please
\* upload some material first."
NoContentMessage ==
  [raised |-> "none", kind |-> "no content", subject |-> "general",
   quoted |-> << >>]

\* lesson_explainer.py lines 18-56: generate_explanation.
generate_explanation(text, level) ==
  LET paragraphs == paragraphs_of(text)
      subject == identify_subject(paragraphs)
  IN IF paragraphs = << >>
     THEN NoContentMessage
     ELSE CASE level = "simple" ->
                 generate_simple_explanation(paragraphs, subject)
            [] level = "advanced" ->
                 generate_advanced_explanation(paragraphs, subject)
            [] OTHER ->
                 generate_teacher_explanation(paragraphs, subject)

InitExplain ==
  /\ InitAuth /\ QuizIdle /\ OptionsIdle /\ AttemptIdle /\ ExtractIdle
  /\ ConvertIdle /\ ReportIdle /\ SessionIdle /\ AudioIdle
  /\ lesson_text \in LessonTexts(MaxParagraphs)
  /\ complexity_level \in ComplexityLevels
  /\ explanation = NoExplanation

\* explanation_component.py lines 64-71: Generate Explanation.
GenerateExplanation ==
  /\ explanation = NoExplanation
  /\ explanation' = generate_explanation(lesson_text, complexity_level)
  /\ UNCHANGED <<lesson_text, complexity_level>>
  /\ UNCHANGED notExplain

SpecExplain == InitExplain /\ [][GenerateExplanation]_vars

(***************************************************************************)
(* What the claims speak of, stated on the tables alone.                   *)
(***************************************************************************)

\* The invite rows holding token t.
RowsOf(t) == {i \in 1..Len(invites) : invites[i].token = t}

\* Token t is Active: it exists, is unused and is not past expires_at.
Active(t, clock) ==
  \E i \in RowsOf(t) : ~invites[i].used /\ ~(invites[i].expires_at < clock)

\* Token t is Used.
Used(t) == \E i \in RowsOf(t) : invites[i].used

\* The used and used_by fields of every invite row.
UsedFields(inv) == [i \in 1..Len(inv) |-> <<inv[i].used, inv[i].used_by>>]

\* Every way register_user can be called in the current state, as one call.
RegisterCalls ==
  {register_user(users, invites, u, p, e, t, salt, now, now + d) :
     u \in Usernames, p \in Passwords, e \in Emails, t \in PresentedTokens,
     salt \in Salts, d \in Elapse}

(***************************************************************************)
(* C1: once use_invite_link has returned True for a token, every later     *)
(* use_invite_link of that token returns False and leaves used and used_by *)
(* of its row as they are, and validate_invite_token of it fails, whatever *)
(* operations come in between.                                             *)
(***************************************************************************)
C1_Step ==
  \A i \in 1..Len(invites) :
    invites[i].used =>
      /\ Len(invites') >= i
      /\ invites'[i].used
      /\ invites'[i].used_by = invites[i].used_by
      /\ \A u \in 1..Len(users) :
           UseInviteLink(invites[i].token, u) => ~result'.ret.success
      /\ ValidateInviteToken(invites[i].token) => ~result'.ret.success

C1_RedeemedOnce == [][C1_Step]_vars

\* A second use_invite_link of a used token, by another user, returned False.
C1_Witness ==
  /\ result.op = "use_invite_link"
  /\ ~result.ret.success
  /\ Used(result.token)

(***************************************************************************)
(* C2: an invite token is single-use under every interleaving: of the      *)
(* register_user calls of different sessions that present the same token,  *)
(* at most one returns success and creates a user.                         *)
(***************************************************************************)
\* The sessions whose register_user call presented token t, created a user
\* and returned success.
Redeemers(t) ==
  {s \in Sessions : /\ sess[s].pc = "done"
                    /\ sess[s].ret.success
                    /\ ~sess[s].is_first_user
                    /\ sess[s].token = t}

InFlight == {sess[s].user_id : s \in {x \in Sessions :
                                       sess[x].pc \in {"use_select", "use_update"}}}

C3_ConsumedWithCreation ==
  /\ \A s \in Sessions :
       (sess[s].pc = "done" /\ sess[s].ret.success /\ ~sess[s].is_first_user) =>
         \E i \in RowsOf(sess[s].token) :
           invites[i].used /\ invites[i].used_by = sess[s].ret.user.id
  /\ \A id \in 1..Len(users) :
       (created_via[id] # Null /\ id \notin InFlight) => Used(created_via[id])

(***************************************************************************)
(* C4 (calls one after the other): on an empty users table register_user   *)
(* with a username of >= 3 and a password of >= 8 characters and no token  *)
(* succeeds and creates an administrator; once a user exists every         *)
(* register_user without a token fails, and no user created while a user   *)
(* exists is an administrator.                                             *)
(***************************************************************************)
C4_FirstUser ==
  /\ \A u \in Usernames, p \in Passwords, e \in Emails, t \in {Null, ""},
        salt \in Salts :
       LET r == register_user(users, invites, u, p, e, t, salt, now, now)
       IN /\ (users = << >> /\ Len(u) >= 3 /\ Len(p) >= 8) =>
               /\ r.ret.success
               /\ Len(r.users) = 1
               /\ r.users[1].username = u
               /\ r.users[1].is_admin
               /\ r.ret.user = r.users[1]
          /\ users # << >> => ~r.ret.success /\ r.users = users
  /\ \A i \in 1..Len(users) : users[i].is_admin <=> i = 1

\* The administrator and a second user exist, and a register_user without a
\* token has just been refused.
C4_Witness ==
  /\ Len(users) = 2
  /\ users[1].is_admin
  /\ result.op = "register_user"
  /\ result.ret = Ret(FALSE, "Invite token is required for registration.", NoRow)

(***************************************************************************)
(* C5: register_user returns success only if the username has >= 3         *)
(* characters, the password has >= 8 characters, and either no user        *)
(* existed when the call started or the presented token was Active when it *)
(* was validated; every other call returns success = False.                *)
(***************************************************************************)
C5_RegistrationRequires ==
  \A u \in Usernames, p \in Passwords, e \in Emails, t \in PresentedTokens,
     salt \in Salts, d \in Elapse :
    register_user(users, invites, u, p, e, t, salt, now, now + d).ret.success =>
      /\ Len(u) >= 3
      /\ Len(p) >= 8
      /\ users = << >> \/ Active(t, now)

\* A user who is not the first has just been registered.
C5_Witness ==
  /\ result.op = "register_user"
  /\ result.ret.success
  /\ result.ret.user.id > 1

(***************************************************************************)
(* C6: an unused token whose expires_at is earlier than the current time   *)
(* is rejected: validate_invite_token fails, use_invite_link returns False *)
(* and marks nothing, and register_user presented with it fails and        *)
(* creates no user.                                                        *)
(***************************************************************************)
C6_ExpiredRejected ==
  \A i \in 1..Len(invites) :
    (~invites[i].used /\ invites[i].expires_at < now) =>
      /\ ~validate_invite_token(invites, invites[i].token, now).success
      /\ \A id \in 1..Len(users) :
           use_invite_link(invites, invites[i].token, id, now) =
             [invites |-> invites, ok |-> FALSE]
      /\ \A u \in Usernames, p \in Passwords, e \in Emails, salt \in Salts,
            d \in Elapse :
           LET r == register_user(users, invites, u, p, e, invites[i].token,
                                  salt, now, now + d)
           IN ~r.ret.success /\ r.users = users /\ r.invites = invites

\* register_user has just refused an unused token that is past expires_at.
C6_Witness ==
  /\ result.op = "register_user"
  /\ result.ret = Ret(FALSE, "Invite token has expired.", NoRow)
  /\ \E i \in 1..Len(invites) : ~invites[i].used /\ invites[i].expires_at < now

(***************************************************************************)
(* C7: every failing register_user call returns {success: False, message}  *)
(* and leaves the users table and the used / used_by fields of every       *)
(* invite row unchanged.                                                   *)
(***************************************************************************)
FailureMessages ==
  {"Invite token is required for registration.",
   "Invalid or already used invite token.",
   "Invite token has expired.",
   "Username must be at least 3 characters long.",
   "Password must be at least 8 characters long.",
   "Username or email already exists."}

C7_FailureChangesNothing ==
  \A r \in RegisterCalls :
    ~r.ret.success =>
      /\ r.ret.message \in FailureMessages
      /\ r.ret.user = NoRow
      /\ r.users = users
      /\ UsedFields(r.invites) = UsedFields(invites)

\* register_user has just failed on a duplicate username or email, after the
\* presented token passed validation.
C7_Witness ==
  /\ result.op = "register_user"
  /\ result.ret = Ret(FALSE, "Username or email already exists.", NoRow)
  /\ \E t \in TokenPool : Active(t, now)

(***************************************************************************)
(* C8: login_user succeeds iff a user with exactly that username exists    *)
(* and the password is the one hashed into the stored hash; the failure    *)
(* for an unknown username is the same result as the failure for a wrong   *)
(* password; and login_user changes no table.                              *)
(***************************************************************************)
Verifies(us, username, password) ==
  \E i \in 1..Len(us) :
    /\ us[i].username = username
    /\ us[i].password_hash.digest = <<us[i].password_hash.salt, password>>

C8_State ==
  /\ \A u \in Usernames, p \in LoginPasswords :
       /\ login_user(users, u, p).success <=> Verifies(users, u, p)
       /\ login_user(users, u, p).success =>
            login_user(users, u, p).user.username = u
  /\ \A u1 \in Usernames, u2 \in Usernames, p1 \in LoginPasswords,
        p2 \in LoginPasswords :
       (UsersNamed(users, u1) = {} /\ UsersNamed(users, u2) # {}
          /\ ~Verifies(users, u2, p2)) =>
         login_user(users, u1, p1) = login_user(users, u2, p2)

C8_Step ==
  \A u \in Usernames, p \in LoginPasswords :
    LoginUser(u, p) => UNCHANGED <<users, invites>>

C8_Login == []C8_State /\ [][C8_Step]_vars

\* A login with the name of an existing user in another case has just failed,
\* although the password is that user's.
C8_Witness ==
  /\ result.op = "login_user"
  /\ ~result.ret.success
  /\ result.username = "Bob"
  /\ UsersNamed(users, "Bob") = {}
  /\ Verifies(users, "bob", "password1")

(***************************************************************************)
(* C9: generate_invite_link called with a user id that is not an existing  *)
(* administrator fails and inserts no invite row; every invite row's       *)
(* created_by is the id of an administrator.                               *)
(***************************************************************************)
IsAdministrator(id) == id \in 1..Len(users) /\ users[id].is_admin

C9_OnlyAdminsInvite ==
  /\ \A id \in 0..(Len(users) + 1), d \in 0..MaxDays, t \in TokenPool2 :
       ~IsAdministrator(id) =>
         LET r == generate_invite_link(users, invites, id, d, t, now)
         IN ~r.ret.success /\ r.invites = invites
  /\ \A i \in 1..Len(invites) : IsAdministrator(invites[i].created_by)

\* An invite exists, and a user who is not an administrator has just been
\* refused one.
C9_Witness ==
  /\ result.op = "generate_invite_link"
  /\ result.ret = Ret(FALSE, "Only administrators can generate invite links.", NoRow)
  /\ Len(users) = 2
  /\ invites # << >>


(***************************************************************************)
(* C10: for every source text and every requested count N >= 1, the quiz   *)
(* that generate_quiz returns contains exactly N questions, also when the  *)
(* key facts are fewer than N and generic questions fill the gap.          *)
(***************************************************************************)
C10_ExactlyN ==
  qpc = "done" =>
    /\ num_questions >= 1
    /\ Len(quiz) = num_questions

\* A returned quiz of a text with fewer key facts than questions asked for,
\* holding a question the generic fallback made.
C10_Witness ==
  /\ qpc = "done"
  /\ Len(extract_key_facts(content)) < num_questions
  /\ Len(quiz) = num_questions
  /\ \E i \in 1..Len(quiz) : quiz[i].generic

(***************************************************************************)
(* C11: generate_quiz terminates for every source text and every N >= 1:   *)
(* the fallback loop reaches N questions and exits, also for a text in     *)
(* which no sentence is longer than 20 characters or no sentence holds a   *)
(* usable term.                                                            *)
(***************************************************************************)
C11_Terminates == <>(qpc = "done")

\* The fallback loop is running and the generic generator it calls returns
\* None whatever it chooses: every further iteration leaves questions as it is.
C11_Stuck ==
  /\ qpc = "generic"
  /\ NeedsMore(questions, num_questions)
  /\ IF Len(questions) % 2 = 0 THEN GenericMultipleChoice(content) = {}
     ELSE GenericShortAnswer(content) = {}

\* How often x occurs in seq.
Occurrences(x, seq) == Cardinality({i \in 1..Len(seq) : seq[i] = x})

(***************************************************************************)
(* C12: every multiple-choice question, built from a fact or by the        *)
(* generic fallback, has exactly 4 options and its correct_answer occurs   *)
(* exactly once among them.                                                *)
(***************************************************************************)
C12_FourOptionsAnswerOnce ==
  opc = "done" =>
    /\ Len(options) = 4
    /\ Occurrences(target_term, options) = 1

\* The options are made and hold the correct answer twice.
C12_AnswerTwice ==
  /\ opc = "done"
  /\ Occurrences(target_term, options) = 2

(***************************************************************************)
(* C13: the 4 options of every multiple-choice question are pairwise       *)
(* distinct, also when fewer than 3 similar words exist in the text and    *)
(* the generic filler pool tops up the distractors.                        *)
(***************************************************************************)
C13_OptionsDistinct ==
  opc = "done" =>
    \A i, j \in 1..Len(options) : options[i] = options[j] => i = j

\* A word of the text is a distractor twice: once as a similar word, once
\* drawn from the filler pool; the correct answer is another word.
C13_FillerRepeatsSimilarWord ==
  /\ opc = "done"
  /\ Occurrences(target_term, options) = 1
  /\ \E i, j \in 1..Len(options) : i # j /\ options[i] = options[j]

(***************************************************************************)
(* C14: no distractor returned by _generate_distractors equals the correct *)
(* answer after lower-casing both, whether it comes from the text or from  *)
(* the generic filler pool.                                                *)
(***************************************************************************)
C14_NoDistractorIsAnswer ==
  opc \in {"shuffle", "done"} =>
    \A i \in 1..Len(distractors) : Lower(distractors[i]) # Lower(target_term)

\* _generate_distractors has returned the correct answer, drawn from the
\* filler pool.
C14_FillerIsAnswer ==
  /\ opc = "shuffle"
  /\ target_term \in GenericDistractors
  /\ \E i \in 1..Len(distractors) : distractors[i] = target_term

(***************************************************************************)
(* C15: within one generate_quiz call no sentence is the source of more    *)
(* than one question, whether the questions are multiple-choice,           *)
(* short-answer or generic, also when the text repeats a sentence.         *)
(***************************************************************************)
C15_NoSentenceReused ==
  qpc = "done" =>
    \A i, j \in 1..Len(quiz) : quiz[i].source = quiz[j].source => i = j

\* A returned quiz in which the generic fallback asks about the sentence a
\* fact question already asks about.
C15_FallbackReusesFact ==
  /\ qpc = "done"
  /\ \E i, j \in 1..Len(quiz) :
       /\ ~quiz[i].generic
       /\ quiz[j].generic
       /\ quiz[i].source = quiz[j].source

\* The short-answer questions of the current quiz that have a stored response.
AnsweredShortAnswers ==
  {i \in DOMAIN quiz_responses : current_quiz[i].question_type = "short_answer"}

\* The distinct lower-cased words the stored response to question i shares
\* with the correct answer, and those of the correct answer.
SharedTerms(i) ==
  Terms(current_quiz[i].correct_answer) \cap Terms(quiz_responses[i].response)

CorrectTerms(i) == Terms(current_quiz[i].correct_answer)

(***************************************************************************)
(* C16: a non-empty response to a short-answer question is graded correct  *)
(* iff the distinct lower-cased words it shares with the correct answer    *)
(* are at least 50% of the distinct words of the correct answer; so the    *)
(* exact answer is correct, a response with a disjoint word set is         *)
(* incorrect, and an overlap of exactly 50% is correct.                    *)
(***************************************************************************)
C16_ShortAnswerGrading ==
  \A i \in AnsweredShortAnswers :
    /\ quiz_responses[i].is_correct <=>
         2 * Cardinality(SharedTerms(i)) >= Cardinality(CorrectTerms(i))
    /\ Terms(quiz_responses[i].response) = CorrectTerms(i) =>
         quiz_responses[i].is_correct
    /\ SharedTerms(i) = {} => ~quiz_responses[i].is_correct
    /\ 2 * Cardinality(SharedTerms(i)) = Cardinality(CorrectTerms(i)) =>
         quiz_responses[i].is_correct

\* A stored response that shares exactly half of the correct answer's words
\* is graded correct, and one with no word in common is graded incorrect.
C16_Witness ==
  /\ \E i \in AnsweredShortAnswers :
       /\ 2 * Cardinality(SharedTerms(i)) = Cardinality(CorrectTerms(i))
       /\ quiz_responses[i].is_correct
  /\ \E i \in AnsweredShortAnswers :
       /\ SharedTerms(i) = {}
       /\ ~quiz_responses[i].is_correct

\* The recorded attempt of the session.
RecordedAttempts ==
  {i \in 1..Len(quiz_attempts) :
     session_user # NoRow /\ quiz_attempts[i].id = quiz_attempt_id}

(***************************************************************************)
(* C17: on submission the stored attempt score is the number of responses  *)
(* graded correct and the stored max_score is the number of questions; the *)
(* displayed percentage is score / max_score * 100; the 80 / 60 thresholds *)
(* decide the displayed message only.                                      *)
(***************************************************************************)
C17_StoredScore ==
  ResultsShown =>
    /\ quiz_results.correct_count =
         Cardinality({i \in DOMAIN quiz_responses : quiz_responses[i].is_correct})
    /\ quiz_results.total_questions = Len(current_quiz)
    /\ quiz_results.score.percent * quiz_results.total_questions =
         100 * quiz_results.correct_count * quiz_results.score.of
    /\ \A a \in RecordedAttempts :
         /\ quiz_attempts[a].score = quiz_results.correct_count
         /\ quiz_attempts[a].max_score = quiz_results.total_questions
         /\ quiz_attempts[a].score \in 0..quiz_attempts[a].max_score

\* A submitted attempt with 2 of 3 responses correct is stored as 2 of 3 and
\* shown with the message of the 60 percent band.
C17_Witness ==
  /\ ResultsShown
  /\ \E a \in RecordedAttempts :
       quiz_attempts[a].score = 2 /\ quiz_attempts[a].max_score = 3
  /\ Feedback(quiz_results) = "info"

\* The rows of question_responses recorded under attempt id a.
ResponsesOf(rows, a) == {i \in 1..Len(rows) : rows[i].attempt_id = a}

(***************************************************************************)
(* C18: once complete_quiz_attempt has been executed for an attempt, no    *)
(* later UI action (Retake Quiz and a second submission included) changes  *)
(* its score, max_score or completed_at, or records further responses      *)
(* under its id.                                                           *)
(***************************************************************************)
C18_Step ==
  \A a \in 1..Len(quiz_attempts) :
    quiz_attempts[a].completed_at # NotCompleted =>
      /\ quiz_attempts'[a] = quiz_attempts[a]
      /\ ResponsesOf(question_responses', quiz_attempts[a].id) =
           ResponsesOf(question_responses, quiz_attempts[a].id)

C18_FinalizedOnce == [][C18_Step]_vars

\* An attempt holds the responses of two submissions and the completion time
\* of the second.
C18_SubmittedTwice ==
  \E a \in 1..Len(quiz_attempts) :
    /\ Cardinality(ResponsesOf(question_responses, quiz_attempts[a].id)) =
         2 * Len(quizzes[quiz_attempts[a].quiz_id].questions)
    /\ quiz_attempts[a].completed_at > 0

\* The extraction of the uploaded file has failed: the library call whose
\* result process_* returns did not yield the text of the file.
ExtractionFailed ==
  /\ xpc = "done"
  /\ IF upload.kind = "pdf"
     THEN /\ upload.pdftotext.status # "ok"
          /\ upload.pypdf2.status # "ok"
     ELSE upload.library.status # "ok"

(***************************************************************************)
(* C19: every text-extraction failure of the image, PDF and DOCX           *)
(* extractors is returned as text beginning with "Error", an encrypted PDF *)
(* and a failing pdftotext followed by the PyPDF2 fallback included.       *)
(***************************************************************************)
C19_FailureBeginsWithError ==
  ExtractionFailed => (extracted_text # << >> /\ extracted_text[1] = "Error")

\* pdftotext has failed on an encrypted PDF, the PyPDF2 fallback has run, and
\* the text returned does not hold the word "Error" at all.
C19_EncryptedNotAnError ==
  /\ ExtractionFailed
  /\ upload.kind = "pdf"
  /\ upload.pypdf2.status = "encrypted"
  /\ ~ContainsError(extracted_text)

\* The questions of the returned quiz that have the given type.
QuizCount(question_type) ==
  Cardinality({i \in 1..Len(quiz) : quiz[i].question_type = question_type})

(***************************************************************************)
(* C20: for every N >= 1 the returned quiz holds exactly                   *)
(* max(1, floor(0.6 N)) multiple-choice questions and N minus that many    *)
(* short-answer questions, also when the fact pool runs out and generic    *)
(* questions are added.                                                    *)
(***************************************************************************)
C20_TypeQuota ==
  qpc = "done" =>
    /\ QuizCount("multiple_choice") = NumMultipleChoice(num_questions)
    /\ QuizCount("short_answer") =
         num_questions - NumMultipleChoice(num_questions)

\* A returned quiz of 3 questions, two of them multiple-choice, one of these
\* made by the generic fallback.
C20_FallbackBreaksQuota ==
  /\ qpc = "done"
  /\ num_questions = 3
  /\ QuizCount("multiple_choice") = 2
  /\ \E i \in 1..Len(quiz) :
       quiz[i].generic /\ quiz[i].question_type = "multiple_choice"


(***************************************************************************)
(* C21: when multiple-choice synthesis yields no question for the chosen   *)
(* fact, generate_quiz tries the next unused fact for the same slot: an    *)
(* iteration of the multiple-choice loop that used a fact and added no     *)
(* question, while unused facts remain, does not advance the loop.         *)
(***************************************************************************)
C21_Step ==
  (/\ qpc = "multiple_choice"
   /\ Len(key_facts') < Len(key_facts)
   /\ questions' = questions
   /\ key_facts' # << >>)
  => (qpc' = qpc /\ qi' = qi)

C21_FailedFactKeepsSlot == [][C21_Step]_vars

\* The only multiple-choice slot of a one-question quiz is over, no question
\* was made from the fact it used, and a fact is still unused.
C21_SlotLostToFailedFact ==
  /\ num_questions = 1
  /\ qpc = "generic"
  /\ questions = << >>
  /\ key_facts # << >>
  /\ Len(key_facts) < Len(extract_key_facts(content))


\* The sentences of the text that are longer than 20 characters and, of
\* these, the strong facts and the others, in the order of the text.
LongOf(text) == SelectSeq(text, LAMBDA s : CharLen(s) > 20)
StrongOf(text) ==
  SelectSeq(LongOf(text),
            LAMBDA s : /\ \E i \in 1..Len(s) : s[i] \in FactVerbs
                       /\ \A i \in 1..Len(s) :
                            Lower(s[i]) \notin {"we", "you"})
PlainOf(text) ==
  LET strong == {StrongOf(text)[i] : i \in 1..Len(StrongOf(text))}
  IN SelectSeq(LongOf(text), LAMBDA s : s \notin strong)

TemplateOrder == <<"is", "are", "was", "were", "has", "have">>
TemplatesMatching(s) ==
  {k \in 1..Len(TemplateOrder) :
     \E i \in 1..Len(s) :
       /\ i > 1 /\ i < Len(s)
       /\ s[i] \in {TemplateOrder[k]} \cup
            (IF TemplateOrder[k] = "are" THEN {"Are"} ELSE {})}

(***************************************************************************)
(* C23: _convert_to_question applies the first matching template in the    *)
(* order is, are, was, were, has, have; a statement matching several is    *)
(* turned into the question of the earliest one, and a statement matching  *)
(* none into the generic "Explain the following concept" question.         *)
(***************************************************************************)
C23_FirstTemplate ==
  question # NoQuestion =>
    IF TemplatesMatching(statement) = {}
    THEN question.template = "generic"
    ELSE \E k \in TemplatesMatching(statement) :
           /\ \A j \in TemplatesMatching(statement) : k <= j
           /\ question.template = TemplateOrder[k]

\* A statement that matches both a later template ("Are", capitalised) and
\* an earlier one ("is") behind it was turned into a question.
C23_Witness ==
  /\ question # NoQuestion
  /\ Len(statement) = 4
  /\ statement[2] = "Are"
  /\ statement[3] = "is"
  /\ question.template = "is"


(***************************************************************************)
(* C24: prepare_report_data returns report data without raising for every  *)
(* attempt history get_user_quiz_history can return, histories with        *)
(* completed attempts and with unfinished attempts (score, max_score and   *)
(* completed_at NULL) included, and total_quizzes is the number of         *)
(* attempts.                                                               *)
(***************************************************************************)
C24_ReportNeverRaises ==
  report_data # NotPrepared =>
    /\ report_data.raised = "none"
    /\ report_data.total_quizzes = Len(quiz_history)

\* prepare_report_data raised on a history of one unfinished attempt and one
\* completed attempt.
C24_HistoryRaises ==
  /\ Len(quiz_history) = 2
  /\ quiz_history[1].completed_at = NotCompleted
  /\ quiz_history[2].completed_at # NotCompleted
  /\ report_data # NotPrepared
  /\ report_data.raised # "none"


\* The users created on the first-user path (no invite token was asked for)
\* and the administrators.
FirstPathUsers == {id \in 1..Len(users) : created_via[id] = Null}
Administrators == {id \in 1..Len(users) : users[id].is_admin}

(***************************************************************************)
(* C25: in any interleaving of concurrent register_user calls on an empty  *)
(* users table at most one call takes the first-user path: at most one     *)
(* user is ever created without an invite token and at most one user is    *)
(* promoted to administrator.                                              *)
(***************************************************************************)
C25_OneFirstUser ==
  /\ Cardinality(FirstPathUsers) <= 1
  /\ Cardinality(Administrators) <= 1

\* Two calls have returned success for two different users, both created
\* without a token and both administrators.
C25_TwoAdministrators ==
  \E s, t \in Sessions :
    /\ s # t
    /\ sess[s].pc = "done" /\ sess[t].pc = "done"
    /\ sess[s].ret.success /\ sess[t].ret.success
    /\ sess[s].ret.user.id # sess[t].ret.user.id
    /\ {sess[s].ret.user.id, sess[t].ret.user.id} \subseteq
         FirstPathUsers \cap Administrators


\* quiz_responses holds an entry for each question index of current_quiz.
AllAnswered ==
  /\ current_quiz # NoQuiz
  /\ DOMAIN quiz_responses = 1..Len(current_quiz)

(***************************************************************************)
(* C27: a quiz submission is processed only when every question has a      *)
(* recorded response: a step sets quiz_results, writes question_responses  *)
(* rows or writes an attempt's score only if quiz_responses holds an entry *)
(* for each question index of current_quiz (so Submit with fewer responses *)
(* changes none of them); and whenever quiz_results is set, current_quiz   *)
(* is set.                                                                 *)
(***************************************************************************)
C27_State == quiz_results # NoResults => AllAnswered

C27_Step ==
  (\/ quiz_results' # quiz_results /\ quiz_results' # NoResults
   \/ question_responses' # question_responses
   \/ \E i \in 1..Len(quiz_attempts) : quiz_attempts'[i] # quiz_attempts[i])
  => AllAnswered

C27_OnlyCompleteSubmissions == []C27_State /\ [][C27_Step]_vars

\* A logged-in user's submission has been processed: results are shown, the
\* attempt is completed and a row is recorded for each question.
C27_Witness ==
  /\ quiz_results # NoResults
  /\ quiz_attempt_id # NoAttempt
  /\ quiz_attempts[quiz_attempt_id].completed_at # NotCompleted
  /\ Len(question_responses) = Len(current_quiz)


(***************************************************************************)
(* C28: every question_responses row written on submission references a   *)
(* question of the attempt's quiz: its question_id is one of the ids that  *)
(* add_question returned for the questions of the quiz the attempt belongs *)
(* to.                                                                     *)
(***************************************************************************)
C28_ResponsesReferenceQuestions ==
  \A r \in 1..Len(question_responses) :
    LET row == question_responses[r]
        ids == add_question_ids(quizzes, quiz_attempts[row.attempt_id].quiz_id)
    IN \E k \in 1..Len(ids) : ids[k] = row.question_id

\* A submitted attempt has a response row whose question_id is the id of no
\* question at all.
C28_DanglingQuestionId ==
  \E r \in 1..Len(question_responses) :
    /\ quiz_attempts[question_responses[r].attempt_id].completed_at # NotCompleted
    /\ \A q \in 1..Len(quizzes) :
         \A k \in 1..Len(quizzes[q].questions) :
           add_question_ids(quizzes, q)[k] # question_responses[r].question_id


(***************************************************************************)
(* C26: the session stays usable after Logout: in every reachable session  *)
(* state in which initialized is true, the objects created by              *)
(* initialize_app (db, auth_manager, auth_component and the other          *)
(* components) are present in session state, so that the rerun following   *)
(* Logout renders the sidebar and the login form.                          *)
(***************************************************************************)
C26_ComponentsPresent ==
  ("initialized" \in DOMAIN session_state /\ session_state["initialized"])
  => /\ ComponentKeys \subseteq DOMAIN session_state
     /\ script_run = "rendered"

\* After a Logout: initialized is still true, nobody is logged in, the
\* component objects are gone and the rerun ended in AttributeError.
C26_LoggedOutSessionBroken ==
  /\ "initialized" \in DOMAIN session_state
  /\ session_state["initialized"]
  /\ session_state["user"] = NoRow
  /\ "auth_component" \notin DOMAIN session_state
  /\ script_run = "AttributeError"


\* C29: in every reachable state of the segment audio player
\* current_audio_path is set only if current_audio_segment_id is set,
\* current_audio_path and audio_generation_error are never both set, and
\* while generate_audio_for_segment is pending no segment id, path or error
\* is set; so at most one segment has audio loaded.
C29_AudioStateConsistent ==
  /\ current_audio_path # Null => current_audio_segment_id # Null
  /\ ~(current_audio_path # Null /\ audio_generation_error # Null)
  /\ generate_audio_for_segment # Null =>
       /\ current_audio_segment_id = Null
       /\ current_audio_path = Null
       /\ audio_generation_error = Null
  /\ Cardinality({segment_id \in Segments :
                    AudioLoaded(AudioState, segment_id)}) <= 1

\* Play was pressed for a segment while the file of an earlier generation
\* is still in the audio folder.
C29_Witness ==
  /\ generate_audio_for_segment \in Segments
  /\ audio_files # {}


\* C30: generate_explanation returns an explanation without raising for
\* every text and each complexity level, texts with fewer than three
\* paragraphs included, and the fixed no-content message for an empty or
\* whitespace-only text.
C30_ExplanationNeverRaises ==
  explanation # NoExplanation =>
    /\ explanation.raised = "none"
    /\ (\A i \in 1..Len(lesson_text) : lesson_text[i] = "  ") =>
         explanation = NoContentMessage

\* The advanced explanation of a text with one or two paragraphs ended with
\* an IndexError.
C30_AdvancedRaises ==
  /\ complexity_level = "advanced"
  /\ Len(paragraphs_of(lesson_text)) \in 1..2
  /\ explanation = [raised |-> "IndexError"]

=============================================================================

















